---- MODULE Spec2Model ----
(***************************************************************************)
(* A model of the content-processing and publishing pipeline of the        *)
(* crypto-autoposting system: the queue consumers of                       *)
(* processing/content_processor.py and publishing/publisher.py, the Celery *)
(* tasks of tasks.py that call the same methods from other processes, and  *)
(* the approve / reject endpoints of main.py.                              *)
(*                                                                         *)
(* The relational store is modelled by its committed tables (raw, pcs,     *)
(* posts, archive); every consumer owns a SQLAlchemy session whose pending *)
(* writes are invisible to the others until its commit.  The Redis lists   *)
(* are sequences (lpush at the head, brpop at the tail) and the Redis      *)
(* caches are functions from key to value.                                 *)
(*                                                                         *)
(* A text is abstracted by what the code observes of it: its provenance    *)
(* (form), its length, the sensitive keywords that occur in it as          *)
(* substrings, and the embedding vector the embedding model gives it.      *)
(* Similarity scores are percentages (0.7 is 70).                          *)
(***************************************************************************)
EXTENDS Integers, Sequences, FiniteSets, TLC

VARIABLES
    raw,        \* raw_content table: id -> [text, language, processed]
    pcs,        \* processed_content table (committed rows): id -> row
    posts,      \* published_posts table (committed rows), in commit order
    archive,    \* content_archive table (committed rows)
    procQueue,  \* Redis list content_processing_queue
    pubQueue,   \* Redis list content_publishing_queue
    llmCache,   \* Redis keys llm_cache:<prompt hash>
    transCache, \* Redis keys translation:<hash>
    simCache,   \* Redis keys similarity:<content id>
    sent,       \* messages delivered to the Telegram channel, per processed id
    pw,         \* the content processors: position and locals of each
    bw,         \* the publishing services: position and locals of each
    submits,    \* number of ids handed to the processing consumers so far
    approved,   \* processed ids for which approve_content has committed
    orchQueued, \* processed ids the orchestrator pushed to the publishing queue
    api,        \* the approve_content requests in flight
    adminCalls, \* number of admin requests and publish tasks so far
    calls,      \* process_single_content calls started, by content id
    aborted,    \* content ids a call of which the store aborted, until a call
                \* for the id returns as processed
    cacheMode,  \* how the Redis cache keys answer: "down", "up" or "flaky"
    llm,        \* a call of _call_openai: what the collaborator answers to each
                \* request of the call, the requests made and the value returned
    scheduled,  \* Redis key scheduled_posts_queue: its type and its items
    now,        \* datetime.utcnow(), in ticks
    swept       \* the entries that were in scheduled_posts_queue and due when a
                \* run of process_scheduled_posts returned

vars == <<raw, pcs, posts, archive, procQueue, pubQueue, llmCache, transCache,
          simCache, sent, pw, bw, submits, approved, orchQueued, api, adminCalls,
          calls, aborted, cacheMode, llm, scheduled, now, swept>>

\* The collaborator call and the scheduling of posts, which no step of the
\* processing and publishing pipelines reads or writes.
apart == <<llm, scheduled, now, swept>>

-----------------------------------------------------------------------------
(* Bounds of the model *)

\* ids handed to the processing consumers (queue pushes and direct task calls)
MaxSubmits == 2
\* approve / reject / publish_single_content_task calls of the admin surface
MaxAdminCalls == 2
\* requests of one collaborator call whose answers are laid down
MaxAnswers == 3
\* schedule_post calls
MaxScheduled == 2
\* ticks of the clock
MaxTime == 2

(* Program constants *)

\* settings.min_similarity_threshold (0.7), as a percentage
MinSimilarityThreshold == 70
\* the candidate admission threshold of _find_similar_content (0.3)
CandidateThreshold == 30
\* the minimum length of a paraphrased text accepted by the gate
MinParaphraseLen == 100
\* the limit of _find_similar_content
SimilarLimit == 10
\* .limit(1000) of the archive query
ArchiveQueryLimit == 1000

-----------------------------------------------------------------------------
(* Values *)

Nil == [none |-> TRUE]

\* The RawContent rows of the store, and an id that names no row.
RawIds == {"r1"}
MissingId == "r0"
ContentIds == RawIds \cup {MissingId}

\* The worker processes.  "loop" is the consumer started by main.py's lifespan
\* (or run_content_processor); "celery" is a Celery worker running the
\* process_content batch or process_single_content_task.
ProcWorkers == {"loop", "celery"}
PubWorkers == {"ploop", "pcelery"}

\* ids of ProcessedContent rows (uuid4: any fresh id)
PcIds == 1..MaxSubmits

HighRiskTags == {"hack", "scam", "exploit"}
MediumRiskTags == {"rumor", "regulation"}
SensitiveKeywords == {"hack", "scam", "regulation", "sec", "lawsuit"}

\* Embedding vectors: <<x, y, norm>> with integer norm, so that every cosine
\* is an exact percentage.
VecA == <<1, 0, 1>>
VecB == <<0, 1, 1>>
VecC == <<3, 4, 5>>
VecD == <<4, 3, 5>>

Txt(form, len, kw, vec) == [form |-> form, len |-> len, kw |-> kw, vec |-> vec]
EmptyText == Txt("empty", 0, {}, VecA)

\* The text of the raw item as collected by ingestion.
RawTexts == {Txt("raw", 120, {}, VecA)}

\* What the analysis LLM may answer: no answer, text that is not JSON, JSON that
\* lacks a required field, or a complete record.
AnalysisTagSets == {{}, {"hack"}}
AnalysisRecords ==
    [risk_tags : AnalysisTagSets, language : {"en", "ru"}, priority : {"medium"}]
AnalysisFailures == {"analysis_error", "analysis_not_json", "analysis_missing_field"}

\* What the translation collaborators may answer.
MachineTexts == {Txt("mt", 130, {}, VecB)}
EnhancedTexts == {Txt("human", 140, {"sec"}, VecB)}

\* What the paraphrase LLM may answer: no answer, plain text, or a JSON record.
ParaphraseBodies == {Txt("para", 100, {}, VecA)}
ParaphraseRecords == [body : ParaphraseBodies, headline_short : {"h"}]

-----------------------------------------------------------------------------
(* Pure functions of the pipeline *)

Min(a, b) == IF a < b THEN a ELSE b

\* The last element of a Redis list is the one brpop returns.
Last(q) == q[Len(q)]
Front(q) == SubSeq(q, 1, Len(q) - 1)

\* sklearn's cosine_similarity of two embeddings, as a percentage.
CosineSimilarity(a, b) == (100 * (a[1] * b[1] + a[2] * b[2])) \div (a[3] * b[3])

\* list.sort(key=similarity, reverse=True): a stable sort by decreasing
\* similarity, here by stable insertion.
RECURSIVE InsertBySimilarity(_, _)
InsertBySimilarity(item, sorted) ==
    IF sorted = <<>> THEN <<item>>
    ELSE IF Head(sorted).similarity >= item.similarity
         THEN <<Head(sorted)>> \o InsertBySimilarity(item, Tail(sorted))
         ELSE <<item>> \o sorted

RECURSIVE SortBySimilarity(_)
SortBySimilarity(items) ==
    IF items = <<>> THEN <<>>
    ELSE InsertBySimilarity(Head(items), SortBySimilarity(Tail(items)))

\* The query of _find_similar_content: the ContentArchive rows that have an
\* embedding, at most 1000 of them, here the first ones of the table.
ArchiveQuery(table) == SubSeq(table, 1, Min(ArchiveQueryLimit, Len(table)))

\* _find_similar_content: the loaded entries whose cosine with the candidate
\* exceeds 0.3, by decreasing similarity, at most `limit` of them.
SimilarItems(embedding, entries) ==
    LET scored == [i \in 1..Len(entries) |->
                      [content_id |-> entries[i].processed_content_id,
                       similarity |-> CosineSimilarity(embedding,
                                                       entries[i].content_embedding)]]
        IsCandidate(item) == item.similarity > CandidateThreshold
    IN  SelectSeq(scored, IsCandidate)

FindSimilarContent(embedding, table, limit) ==
    LET similar_items == SortBySimilarity(SimilarItems(embedding, ArchiveQuery(table)))
    IN  SubSeq(similar_items, 1, Min(limit, Len(similar_items)))

RECURSIVE MaxSimilarity(_)
MaxSimilarity(items) ==
    IF items = <<>> THEN 0
    ELSE LET m == MaxSimilarity(Tail(items))
         IN  IF Head(items).similarity > m THEN Head(items).similarity ELSE m

\* A default that calls the text a duplicate: C29 does not hold of it.
DefaultSimilarityResultDuplicate ==
    [similarity_score |-> 100, similar_content_ids |-> <<>>, is_duplicate |-> TRUE,
     embedding |-> Nil]

DefaultSimilarityResult ==
    [similarity_score |-> 0, similar_content_ids |-> <<>>, is_duplicate |-> FALSE,
     embedding |-> Nil]

\* The result check_similarity builds once it has an embedding.
SimilarityResult(embedding, entries, threshold) ==
    LET similar_content == FindSimilarContent(embedding, entries, SimilarLimit)
        max_similarity == MaxSimilarity(similar_content)
    IN  [similarity_score |-> max_similarity,
         similar_content_ids |->
             [i \in 1..Len(similar_content) |-> similar_content[i].content_id],
         is_duplicate |-> max_similarity > threshold,
         embedding |-> embedding]

\* A risk level that is never high: C10 does not hold of it.
CalculateRiskLevelNeverHigh(analysis) ==
    IF analysis.risk_tags \cap (HighRiskTags \cup MediumRiskTags) # {} THEN "medium"
    ELSE "low"

\* A risk level that looks for the medium tags first: C36 does not hold of it.
CalculateRiskLevelMediumFirst(analysis) ==
    IF analysis.risk_tags \cap MediumRiskTags # {} THEN "medium"
    ELSE IF analysis.risk_tags \cap HighRiskTags # {} THEN "high"
    ELSE "low"

\* _calculate_risk_level
CalculateRiskLevel(analysis) ==
    IF analysis.risk_tags \cap HighRiskTags # {} THEN "high"
    ELSE IF analysis.risk_tags \cap MediumRiskTags # {} THEN "medium"
    ELSE "low"

\* A gate without its rule on the length of the rewritten text: C12 does not
\* hold of it.
CheckHitlRequirementsNoLength(processed, threshold) ==
    \/ processed.risk_level = "high"
    \/ processed.similarity_score > threshold
    \/ processed.translated_text.kw \cap SensitiveKeywords # {}

\* A gate that also reads the id of the row, which is none of its inputs:
\* C9 does not hold of it.
CheckHitlRequirementsById(processed, threshold) ==
    processed.risk_level = "high" \/ processed.id = 1

\* The conditions of _check_hitl_requirements that hold of a row, by the name
\* of the rule: the gate returns True at the first of them.
MatchedRules(processed, threshold) ==
    {rule \in {"risk", "similarity", "sensitive-keyword", "low-quality"} :
        \/ rule = "risk" /\ processed.risk_level = "high"
        \/ rule = "similarity" /\ processed.similarity_score > threshold
        \/ rule = "sensitive-keyword"
              /\ processed.translated_text.kw \cap SensitiveKeywords # {}
        \/ rule = "low-quality"
              /\ (processed.paraphrased_text.len = 0
                     \/ processed.paraphrased_text.len < MinParaphraseLen)}

\* _check_hitl_requirements: the gate.  TRUE is hold.
CheckHitlRequirements(processed, threshold) ==
    IF processed.risk_level = "high" THEN TRUE
    ELSE IF processed.similarity_score > threshold THEN TRUE
    ELSE IF processed.translated_text.kw \cap SensitiveKeywords # {} THEN TRUE
    ELSE IF processed.paraphrased_text.len = 0
            \/ processed.paraphrased_text.len < MinParaphraseLen THEN TRUE
    ELSE FALSE

-----------------------------------------------------------------------------
(* The content processor *)

PwIdle ==
    [pc |-> "brpop", content_id |-> "none", analysis |-> Nil, translation |-> Nil,
     similarity |-> Nil, paraphrase |-> Nil, processed |-> Nil, outcome |-> ""]

\* Leave process_single_content: the consumer goes to its sleep with the
\* outcome it logged; the locals of the stages are dropped.
PwReturn(w, outcome) ==
    pw' = [pw EXCEPT ![w] = [PwIdle EXCEPT !.pc = "sleep",
                                            !.content_id = pw[w].content_id,
                                            !.processed = pw[w].processed,
                                            !.outcome = outcome]]

\* An id no committed and no pending ProcessedContent row has (uuid4).
PendingPcIds == {pw[w].processed.id : w \in {v \in ProcWorkers : pw[v].processed # Nil}}
FreshPcId == CHOOSE i \in PcIds : i \notin DOMAIN pcs /\ i \notin PendingPcIds

\* The prompt_data records whose md5 keys the LLM cache.
AnalysisPromptData(raw_content) ==
    [text |-> raw_content.text, template |-> "analysis"]
ParaphrasePromptData(translation, similarity) ==
    [text |-> translation.human_translation,
     similarity_score |-> similarity.similarity_score,
     template |-> "paraphrase"]

\* RedisClient.get and RedisClient.set catch every Redis error: a get that
\* fails is a miss and a set that fails is only logged.  With the cache down
\* every one of them fails, with it up none does, and a flaky cache fails
\* call by call.
CacheModes == {"down", "up", "flaky"}
CacheOutcomes ==
    CASE cacheMode = "down" -> {FALSE}
      [] cacheMode = "up" -> {TRUE}
      [] cacheMode = "flaky" -> BOOLEAN

\* A cache whose writes never land: C22 does not hold of it.
CacheSetLost(cache, key, value, ok) == cache

\* RedisClient.set after a computed result: the write lands, or fails and is
\* only logged.
CacheSet(cache, key, value, ok) ==
    IF ok THEN [k \in DOMAIN cache \cup {key} |-> IF k = key THEN value ELSE cache[k]]
    ELSE cache

\* Ingestion (_queue_for_processing) or trigger_manual_processing pushes the id
\* of a RawContent row; an at-least-once queue may hold it more than once.
Submit(r) ==
    /\ submits < MaxSubmits
    /\ submits' = submits + 1
    /\ procQueue' = <<r>> \o procQueue
    /\ UNCHANGED <<raw, pcs, posts, archive, pubQueue, llmCache, transCache,
                   simCache, sent, pw, bw, approved, orchQueued, api, adminCalls,
                   calls, aborted, cacheMode, apart>>

\* process_content_queue / the process_content batch: brpop an id.
ProcBrpop(w) ==
    /\ pw[w].pc = "brpop"
    /\ procQueue # <<>>
    /\ procQueue' = Front(procQueue)
    /\ pw' = [pw EXCEPT ![w] = [PwIdle EXCEPT !.pc = "load",
                                               !.content_id = Last(procQueue)]]
    /\ calls' = [calls EXCEPT ![Last(procQueue)] = @ + 1]
    /\ UNCHANGED <<raw, pcs, posts, archive, pubQueue, llmCache, transCache,
                   simCache, sent, bw, submits, approved, orchQueued, api, adminCalls, aborted, cacheMode, apart>>

\* process_single_content_task(content_id): a Celery worker is handed an id.
ProcessSingleContentTask(w, r) ==
    /\ pw[w].pc = "brpop"
    /\ submits < MaxSubmits
    /\ submits' = submits + 1
    /\ pw' = [pw EXCEPT ![w] = [PwIdle EXCEPT !.pc = "load", !.content_id = r]]
    /\ calls' = [calls EXCEPT ![r] = @ + 1]
    /\ UNCHANGED <<raw, pcs, posts, archive, procQueue, pubQueue, llmCache,
                   transCache, simCache, sent, bw, approved, orchQueued, api, adminCalls, aborted, cacheMode, apart>>

\* A load that takes no row for consumed: C5 does not hold of it.
AlreadyProcessedIgnored(raw_content) == FALSE

\* "if raw_content.processed": the row has been consumed.
AlreadyProcessed(raw_content) == raw_content.processed

\* process_single_content, the load and its two early returns.
LoadRawContent(w) ==
    /\ pw[w].pc = "load"
    /\ IF pw[w].content_id \notin DOMAIN raw
       THEN PwReturn(w, "not_found")
       ELSE IF AlreadyProcessed(raw[pw[w].content_id])
       THEN PwReturn(w, "already_processed")
       ELSE pw' = [pw EXCEPT ![w].pc = "analyze"]
    /\ UNCHANGED <<raw, pcs, posts, archive, procQueue, pubQueue, llmCache,
                   transCache, simCache, sent, bw, submits, approved, orchQueued, api, adminCalls,
                   calls, aborted, cacheMode, apart>>

\* _analyze_content and the return of process_single_content when it gives None.
\* cacheRead / cacheWrite: whether the Redis get / set went through.
AnalyzeContent(w) ==
    /\ pw[w].pc = "analyze"
    /\ LET raw_content == raw[pw[w].content_id]
           key == AnalysisPromptData(raw_content)
       IN  \E cacheRead \in CacheOutcomes :
             IF cacheRead /\ key \in DOMAIN llmCache
             THEN /\ pw' = [pw EXCEPT ![w].pc = "translate",
                                      ![w].analysis = llmCache[key]]
                  /\ UNCHANGED llmCache
             ELSE \/ \E failure \in AnalysisFailures :
                       /\ PwReturn(w, failure)
                       /\ UNCHANGED llmCache
                  \/ \E response \in AnalysisRecords, cacheWrite \in CacheOutcomes :
                       /\ llmCache' = CacheSet(llmCache, key, response, cacheWrite)
                       /\ pw' = [pw EXCEPT ![w].pc = "translate",
                                           ![w].analysis = response]
    /\ UNCHANGED <<raw, pcs, posts, archive, procQueue, pubQueue, transCache,
                   simCache, sent, bw, submits, approved, orchQueued, api, adminCalls,
                   calls, aborted, cacheMode, apart>>

\* A translation stage that gives the item up: C15 does not hold of it.
TranslateContentGivingUp(w) ==
    /\ pw[w].pc = "translate"
    /\ PwReturn(w, "translation_failed")
    /\ UNCHANGED <<raw, pcs, posts, archive, procQueue, pubQueue, llmCache,
                   transCache, simCache, sent, bw, submits, approved, orchQueued, api,
                   adminCalls, calls, aborted, cacheMode, apart>>

\* _translate_content and TranslationService.translate_with_llm.
TranslateContent(w) ==
    /\ pw[w].pc = "translate"
    /\ LET raw_content == raw[pw[w].content_id]
           detected_lang == pw[w].analysis.language
           key == [text |-> raw_content.text, source_lang |-> detected_lang,
                   target_lang |-> "ru"]
       IN  IF detected_lang \in {"ru", "russian"}
           THEN /\ pw' = [pw EXCEPT ![w].pc = "similarity",
                                    ![w].translation =
                                        [original_language |-> detected_lang,
                                         machine_translation |-> Nil,
                                         human_translation |-> raw_content.text]]
                /\ UNCHANGED transCache
           ELSE \E cacheRead \in CacheOutcomes :
                  IF cacheRead /\ key \in DOMAIN transCache
                  THEN /\ pw' = [pw EXCEPT ![w].pc = "similarity",
                                           ![w].translation = transCache[key]]
                       /\ UNCHANGED transCache
                  ELSE \E machine_translation \in MachineTexts \cup {raw_content.text} :
                       \E human_translation \in EnhancedTexts \cup {machine_translation} :
                       \E cacheWrite \in CacheOutcomes :
                         LET result == [original_language |-> detected_lang,
                                        machine_translation |-> machine_translation,
                                        human_translation |-> human_translation]
                         IN  /\ transCache' = CacheSet(transCache, key, result, cacheWrite)
                             /\ pw' = [pw EXCEPT ![w].pc = "similarity",
                                                 ![w].translation = result]
    /\ UNCHANGED <<raw, pcs, posts, archive, procQueue, pubQueue, llmCache,
                   simCache, sent, bw, submits, approved, orchQueued, api, adminCalls,
                   calls, aborted, cacheMode, apart>>

\* _check_similarity and SimilarityChecker.check_similarity.
CheckSimilarity(w) ==
    /\ pw[w].pc = "similarity"
    /\ LET text == pw[w].translation.human_translation
           key == pw[w].content_id
       IN  \E cacheRead \in CacheOutcomes :
             IF cacheRead /\ key \in DOMAIN simCache
             THEN /\ pw' = [pw EXCEPT ![w].pc = "paraphrase",
                                      ![w].similarity = simCache[key]]
                  /\ UNCHANGED simCache
             ELSE \E embedded \in BOOLEAN, cacheWrite \in CacheOutcomes :
                    IF embedded
                    THEN LET result == SimilarityResult(text.vec, archive,
                                                        MinSimilarityThreshold)
                         IN  /\ simCache' = CacheSet(simCache, key, result, cacheWrite)
                             /\ pw' = [pw EXCEPT ![w].pc = "paraphrase",
                                                 ![w].similarity = result]
                    ELSE /\ pw' = [pw EXCEPT ![w].pc = "paraphrase",
                                             ![w].similarity = DefaultSimilarityResult]
                         /\ UNCHANGED simCache
    /\ UNCHANGED <<raw, pcs, posts, archive, procQueue, pubQueue, llmCache,
                   transCache, sent, bw, submits, approved, orchQueued, api, adminCalls,
                   calls, aborted, cacheMode, apart>>

\* _paraphrase_content.
EmptyParaphrase == [body |-> EmptyText, headline_short |-> ""]

ParaphraseContent(w) ==
    /\ pw[w].pc = "paraphrase"
    /\ LET key == ParaphrasePromptData(pw[w].translation, pw[w].similarity)
       IN  \E cacheRead \in CacheOutcomes :
             IF cacheRead /\ key \in DOMAIN llmCache
             THEN /\ pw' = [pw EXCEPT ![w].pc = "create",
                                      ![w].paraphrase = llmCache[key]]
                  /\ UNCHANGED llmCache
             ELSE \/ \* no response, or an exception: {}
                     /\ pw' = [pw EXCEPT ![w].pc = "create",
                                         ![w].paraphrase = EmptyParaphrase]
                     /\ UNCHANGED llmCache
                  \/ \* a response that is not JSON is taken as the body
                     \E body \in ParaphraseBodies :
                       /\ pw' = [pw EXCEPT ![w].pc = "create",
                                           ![w].paraphrase =
                                               [body |-> body, headline_short |-> ""]]
                       /\ UNCHANGED llmCache
                  \/ \* a JSON response is cached and returned
                     \E result \in ParaphraseRecords, cacheWrite \in CacheOutcomes :
                       /\ llmCache' = CacheSet(llmCache, key, result, cacheWrite)
                       /\ pw' = [pw EXCEPT ![w].pc = "create",
                                           ![w].paraphrase = result]
    /\ UNCHANGED <<raw, pcs, posts, archive, procQueue, pubQueue, transCache,
                   simCache, sent, bw, submits, approved, orchQueued, api, adminCalls,
                   calls, aborted, cacheMode, apart>>

\* The ProcessedContent object _create_processed_content builds; status and
\* requires_hitl take their column defaults.
NewProcessedContent(id, content_id, analysis, translation, similarity, paraphrase) ==
    [id |-> id,
     raw_content_id |-> content_id,
     priority |-> analysis.priority,
     risk_level |-> CalculateRiskLevel(analysis),
     risk_tags |-> analysis.risk_tags,
     original_language |-> translation.original_language,
     translated_text |-> translation.human_translation,
     machine_translation |-> translation.machine_translation,
     paraphrased_text |-> paraphrase.body,
     headline_short |-> paraphrase.headline_short,
     similarity_score |-> similarity.similarity_score,
     status |-> "pending",
     requires_hitl |-> FALSE]

\* _create_processed_content: session.add and session.flush.  A flush that
\* raises is re-raised to process_single_content, which rolls back.
CreateProcessedContent(w) ==
    /\ pw[w].pc = "create"
    /\ \E flushed \in BOOLEAN :
         IF flushed
         THEN /\ pw' = [pw EXCEPT ![w].pc = "hitl",
                                  ![w].processed =
                                      NewProcessedContent(FreshPcId, pw[w].content_id,
                                          pw[w].analysis, pw[w].translation,
                                          pw[w].similarity, pw[w].paraphrase)]
              /\ UNCHANGED aborted
         ELSE /\ PwReturn(w, "persist_failed")
              /\ aborted' = aborted \cup {pw[w].content_id}
    /\ UNCHANGED <<raw, pcs, posts, archive, procQueue, pubQueue, llmCache,
                   transCache, simCache, sent, bw, submits, approved, orchQueued, api, adminCalls,
                   calls, cacheMode, apart>>

\* Step 6 of process_single_content: the gate, and the status it decides.
SetStatus(processed, requires_hitl) ==
    [processed EXCEPT !.requires_hitl = requires_hitl,
                      !.status = IF requires_hitl THEN "pending" ELSE "ready"]

DetermineHitl(w) ==
    /\ pw[w].pc = "hitl"
    /\ pw' = [pw EXCEPT ![w].pc = "commit",
                        ![w].processed =
                            SetStatus(pw[w].processed,
                                CheckHitlRequirements(pw[w].processed,
                                                      MinSimilarityThreshold))]
    /\ UNCHANGED <<raw, pcs, posts, archive, procQueue, pubQueue, llmCache,
                   transCache, simCache, sent, bw, submits, approved, orchQueued, api, adminCalls,
                   calls, aborted, cacheMode, apart>>

\* A commit that leaves the processed flag as it was: C1 does not hold of it.
MarkProcessedForgotten(rawTable, content_id) == rawTable

\* The rows one commit of process_single_content writes.
MarkProcessed(rawTable, content_id) ==
    [rawTable EXCEPT ![content_id].processed = TRUE]
\* A commit that loses the new row: C7 does not hold of it.
InsertRowLost(table, row) == table

InsertRow(table, row) ==
    [i \in DOMAIN table \cup {row.id} |-> IF i = row.id THEN row ELSE table[i]]

\* A commit whose failure is not rolled back, the row and the flag staying
\* written: C16 does not hold of it.
CommitProcessedNoRollback(w) ==
    /\ pw[w].pc = "commit"
    /\ pcs' = InsertRow(pcs, pw[w].processed)
    /\ raw' = MarkProcessed(raw, pw[w].content_id)
    /\ pw' = [pw EXCEPT ![w] = [PwIdle EXCEPT !.pc = "sleep",
                                             !.content_id = pw[w].content_id,
                                             !.outcome = "persist_failed"]]
    /\ aborted' = aborted \cup {pw[w].content_id}
    /\ UNCHANGED <<posts, archive, procQueue, pubQueue, llmCache, transCache,
                   simCache, sent, bw, submits, approved, orchQueued, api, adminCalls,
                   calls, cacheMode, apart>>

\* raw_content.processed = True; session.commit().  A commit that raises is
\* rolled back: neither the row nor the flag is written.
CommitProcessed(w) ==
    /\ pw[w].pc = "commit"
    /\ \E committed \in BOOLEAN :
         IF committed
         THEN /\ pcs' = InsertRow(pcs, pw[w].processed)
              /\ raw' = MarkProcessed(raw, pw[w].content_id)
              /\ pw' = [pw EXCEPT ![w].pc = "queue"]
              /\ UNCHANGED aborted
         ELSE /\ pw' = [pw EXCEPT ![w] = [PwIdle EXCEPT !.pc = "sleep",
                                              !.content_id = pw[w].content_id,
                                              !.outcome = "persist_failed"]]
              /\ aborted' = aborted \cup {pw[w].content_id}
              /\ UNCHANGED <<raw, pcs>>
    /\ UNCHANGED <<posts, archive, procQueue, pubQueue, llmCache, transCache,
                   simCache, sent, bw, submits, approved, orchQueued, api, adminCalls,
                   calls, cacheMode, apart>>

\* _queue_for_publishing, called only for an item the gate did not hold; an
\* lpush that fails returns False and nothing is queued.
QueueForPublishing(w) ==
    /\ pw[w].pc = "queue"
    /\ IF ~pw[w].processed.requires_hitl
       THEN \E pushed \in BOOLEAN :
              IF pushed
              THEN /\ pubQueue' = <<pw[w].processed.id>> \o pubQueue
                   /\ orchQueued' = orchQueued \cup {pw[w].processed.id}
              ELSE UNCHANGED <<pubQueue, orchQueued>>
       ELSE UNCHANGED <<pubQueue, orchQueued>>
    /\ PwReturn(w, "processed")
    /\ aborted' = aborted \ {pw[w].content_id}
    /\ UNCHANGED <<raw, pcs, posts, archive, procQueue, llmCache,
                   transCache, simCache, sent, bw, submits, approved, api, adminCalls,
                   calls, cacheMode, apart>>

\* asyncio.sleep(1), then the next brpop.
ProcSleep(w) ==
    /\ pw[w].pc = "sleep"
    /\ pw' = [pw EXCEPT ![w] = PwIdle]
    /\ UNCHANGED <<raw, pcs, posts, archive, procQueue, pubQueue, llmCache,
                   transCache, simCache, sent, bw, submits, approved, orchQueued, api, adminCalls,
                   calls, aborted, cacheMode, apart>>

\* The shutdown of main.py cancels the task of the loop at the await it is
\* in: nothing after that await runs, and close() drops what the session
\* had not committed.
Cancel(w) ==
    /\ pw[w].pc # "cancelled"
    /\ pw' = [pw EXCEPT ![w] = [PwIdle EXCEPT !.pc = "cancelled",
                                               !.content_id = pw[w].content_id]]
    /\ UNCHANGED <<raw, pcs, posts, archive, procQueue, pubQueue, llmCache,
                   transCache, simCache, sent, bw, submits, approved, orchQueued, api, adminCalls,
                   calls, aborted, cacheMode, apart>>

\* The ProcessedContent rows whose raw_content_id is r.
RowsOf(r) == {p \in DOMAIN pcs : pcs[p].raw_content_id = r}

-----------------------------------------------------------------------------
(* _call_openai of ContentProcessor and of TranslationService: the same code *)

\* What openai.ChatCompletion.acreate does with one request: it raises (a
\* network error, a rate limit) or it returns a completion.
LlmErrors == {"network_error", "rate_limit"}
LlmCompletions == {"json", "prose"}

\* What the collaborator would do with the first, the second, ... request of
\* a call, were they made.
LlmAnswerSeqs ==
    UNION {[1..n -> LlmErrors \cup LlmCompletions] : n \in 1..MaxAnswers}

LlmIdle == [answers |-> <<>>, attempts |-> 0, result |-> "pending"]

\* _call_openai: one acreate inside try/except.  The completion is returned;
\* any exception is logged and None is returned.
CallOpenai(answers) ==
    IF answers[1] \in LlmErrors THEN "None" ELSE answers[1]

\* A stage awaits _call_openai(prompt).
CallOpenaiStep ==
    /\ llm.result = "pending"
    /\ llm.answers # <<>>
    /\ llm' = [llm EXCEPT !.attempts = 1, !.result = CallOpenai(llm.answers)]
    /\ UNCHANGED <<raw, pcs, posts, archive, procQueue, pubQueue, llmCache,
                   transCache, simCache, sent, pw, bw, submits, approved, orchQueued,
                   api, adminCalls, calls, aborted, cacheMode, scheduled, now, swept>>

-----------------------------------------------------------------------------
(* The publishing service *)

\* settings.affiliate_link_frequency
AffiliateLinkFrequency == 5

BwIdle(needs_rollback) ==
    [pc |-> "brpop", processed_content_id |-> 0, contains_affiliate |-> FALSE,
     image_urls |-> FALSE, message |-> "none", needs_rollback |-> needs_rollback,
     result |-> "none"]

\* Leave publish_content with the value it returns.
BwReturn(w, result, needs_rollback) ==
    bw' = [bw EXCEPT ![w] = [BwIdle(needs_rollback) EXCEPT
                                 !.pc = "sleep",
                                 !.processed_content_id = bw[w].processed_content_id,
                                 !.message = bw[w].message,
                                 !.result = result]]

PostsOf(p) == {i \in 1..Len(posts) : posts[i].processed_content_id = p}

\* The query of _should_add_affiliate_link: the posts of the last 24 hours,
\* latest first, at most `frequency` of them.  The model spans less than 24
\* hours, so every post is recent.
RecentPosts(allPosts, frequency) ==
    [i \in 1..Min(frequency, Len(allPosts)) |-> allPosts[Len(allPosts) + 1 - i]]

\* A decision that reads only the links of the window, not its size: C33
\* does not hold of it.
ShouldAddAffiliateLinkWhenNone(allPosts, frequency) ==
    \A i \in 1..Min(frequency, Len(allPosts)) :
        ~allPosts[Len(allPosts) + 1 - i].contains_affiliate

\* _should_add_affiliate_link: TRUE when a link is returned.
ShouldAddAffiliateLink(allPosts, frequency) ==
    LET recent_posts == RecentPosts(allPosts, frequency)
        affiliate_posts == {i \in 1..Len(recent_posts) : recent_posts[i].contains_affiliate}
    IN  Cardinality(affiliate_posts) = 0 \/ Len(recent_posts) % frequency = 0

\* process_publishing_queue / the publish_content batch: brpop an id.
PubBrpop(w) ==
    /\ bw[w].pc = "brpop"
    /\ pubQueue # <<>>
    /\ pubQueue' = Front(pubQueue)
    /\ bw' = [bw EXCEPT ![w].pc = "check",
                        ![w].processed_content_id = Last(pubQueue)]
    /\ UNCHANGED <<raw, pcs, posts, archive, procQueue, llmCache, transCache,
                   simCache, sent, pw, submits, approved, orchQueued, api, adminCalls,
                   calls, aborted, cacheMode, apart>>

\* publish_single_content_task(content_id): a Celery worker is handed an id,
\* and builds a PublishingService (a new session) for it.
PublishSingleContentTask(w, p) ==
    /\ bw[w].pc = "brpop"
    /\ adminCalls < MaxAdminCalls
    /\ adminCalls' = adminCalls + 1
    /\ bw' = [bw EXCEPT ![w] = [BwIdle(FALSE) EXCEPT !.pc = "check",
                                                     !.processed_content_id = p]]
    /\ UNCHANGED <<raw, pcs, posts, archive, procQueue, pubQueue, llmCache,
                   transCache, simCache, sent, pw, submits, approved, orchQueued, api,
                   calls, aborted, cacheMode, apart>>

\* A Celery publish_content batch ends and the next one builds a new
\* PublishingService: the failed session is gone.
NewPublishingService(w) ==
    /\ bw[w].pc = "brpop"
    /\ bw[w].needs_rollback
    /\ bw' = [bw EXCEPT ![w] = BwIdle(FALSE)]
    /\ UNCHANGED <<raw, pcs, posts, archive, procQueue, pubQueue, llmCache, transCache,
                   simCache, sent, pw, submits, approved, orchQueued, api, adminCalls,
                   calls, aborted, cacheMode, apart>>

\* A publisher that takes an item in any status: C8 does not hold of it.
PublishableInAnyStatus(processed_content) == TRUE

\* The status the publisher requires of an item.
Publishable(processed_content) == processed_content.status = "ready"

\* publish_content up to "Check if already published".  A session whose last
\* commit failed raises on its first query: the handler rolls back and
\* returns False.
CheckReady(w) ==
    /\ bw[w].pc = "check"
    /\ LET p == bw[w].processed_content_id
       IN  IF bw[w].needs_rollback
           THEN BwReturn(w, "error", FALSE)
           ELSE IF p \notin DOMAIN pcs
           THEN BwReturn(w, "not_found", FALSE)
           ELSE IF ~Publishable(pcs[p])
           THEN BwReturn(w, "not_ready", FALSE)
           ELSE IF PostsOf(p) # {}
           THEN BwReturn(w, "already_published", FALSE)
           ELSE bw' = [bw EXCEPT ![w].pc = "prepare"]
    /\ UNCHANGED <<raw, pcs, posts, archive, procQueue, pubQueue, llmCache, transCache,
                   simCache, sent, pw, submits, approved, orchQueued, api, adminCalls,
                   calls, aborted, cacheMode, apart>>

\* _prepare_final_content (the affiliate decision; a failed query gives no
\* link) and _prepare_images (an image only for an item with a headline).
PrepareContent(w) ==
    /\ bw[w].pc = "prepare"
    /\ LET processed_content == pcs[bw[w].processed_content_id]
       IN  \E queryOk \in BOOLEAN, image \in BOOLEAN :
             /\ image => processed_content.headline_short # ""
             /\ bw' = [bw EXCEPT
                         ![w].pc = "send",
                         ![w].contains_affiliate =
                             queryOk /\ ShouldAddAffiliateLink(posts, AffiliateLinkFrequency),
                         ![w].image_urls = image]
    /\ UNCHANGED <<raw, pcs, posts, archive, procQueue, pubQueue, llmCache, transCache,
                   simCache, sent, pw, submits, approved, orchQueued, api, adminCalls,
                   calls, aborted, cacheMode, apart>>

\* _publish_to_telegram up to the message id: send_photo when there is an
\* image, send_message when there is none or the photo failed.  No bot, or a
\* failed send_message, returns False.
SendToTelegram(w) ==
    /\ bw[w].pc = "send"
    /\ LET p == bw[w].processed_content_id
       IN  \/ /\ bw[w].image_urls
              /\ sent' = [sent EXCEPT ![p] = @ + 1]
              /\ bw' = [bw EXCEPT ![w].pc = "record", ![w].message = "photo"]
           \/ /\ sent' = [sent EXCEPT ![p] = @ + 1]
              /\ bw' = [bw EXCEPT ![w].pc = "record", ![w].message = "text"]
           \/ /\ BwReturn(w, "failed", FALSE)
              /\ UNCHANGED sent
    /\ UNCHANGED <<raw, pcs, posts, archive, procQueue, pubQueue, llmCache, transCache,
                   simCache, pw, submits, approved, orchQueued, api, adminCalls,
                   calls, aborted, cacheMode, apart>>

\* _publish_to_telegram, "Record published post": session.add and
\* session.commit.  A commit that raises is caught and answered with False,
\* without a rollback.
RecordPublishedPost(w) ==
    /\ bw[w].pc = "record"
    /\ \E committed \in BOOLEAN :
         IF committed
         THEN /\ posts' = Append(posts,
                     [processed_content_id |-> bw[w].processed_content_id,
                      contains_affiliate |-> bw[w].contains_affiliate,
                      external_post_id |-> bw[w].message])
              /\ bw' = [bw EXCEPT ![w].pc = "status"]
         ELSE /\ BwReturn(w, "failed", TRUE)
              /\ UNCHANGED posts
    /\ UNCHANGED <<raw, pcs, archive, procQueue, pubQueue, llmCache, transCache,
                   simCache, sent, pw, submits, approved, orchQueued, api, adminCalls,
                   calls, aborted, cacheMode, apart>>

\* publish_content after a successful send: status = published and commit
\* (an UPDATE of the status column alone); a commit that raises is rolled back.
UpdateStatus(w) ==
    /\ bw[w].pc = "status"
    /\ \E committed \in BOOLEAN :
         IF committed
         THEN /\ pcs' = [pcs EXCEPT ![bw[w].processed_content_id].status = "published"]
              /\ BwReturn(w, "published", FALSE)
         ELSE /\ BwReturn(w, "error", FALSE)
              /\ UNCHANGED pcs
    /\ UNCHANGED <<raw, posts, archive, procQueue, pubQueue, llmCache, transCache,
                   simCache, sent, pw, submits, approved, orchQueued, api, adminCalls,
                   calls, aborted, cacheMode, apart>>

\* settings.max_posts_per_day, which no module but config.py names.
MaxPostsPerDay == 10

\* The length of a run of publishes over which the affiliate policy is judged.
RunLength == 5 * AffiliateLinkFrequency

\* The posts of the run: those of the items 1, 2, ... that the run publishes
\* (the posts of the history before it are of item 0).
RunPosts == SelectSeq(posts, LAMBDA post : post.processed_content_id # 0)

\* publish_content for the next ready item of a run, when the store and the
\* channel answer every request: no post of the item exists, the affiliate
\* decision is that of _should_add_affiliate_link on the table as it is, the
\* message is sent as text and the PublishedPost is committed.  The call
\* reads no count of the posts of the day.
PublishNext ==
    /\ Len(RunPosts) < RunLength
    /\ posts' = Append(posts,
            [processed_content_id |-> Len(RunPosts) + 1,
             contains_affiliate |-> ShouldAddAffiliateLink(posts, AffiliateLinkFrequency),
             external_post_id |-> "text"])
    /\ UNCHANGED <<raw, pcs, archive, procQueue, pubQueue, llmCache, transCache,
                   simCache, sent, pw, bw, submits, approved, orchQueued, api, adminCalls,
                   calls, aborted, cacheMode, apart>>

\* asyncio.sleep(1), then the next brpop.
PubSleep(w) ==
    /\ bw[w].pc = "sleep"
    /\ bw' = [bw EXCEPT ![w] = BwIdle(bw[w].needs_rollback)]
    /\ UNCHANGED <<raw, pcs, posts, archive, procQueue, pubQueue, llmCache, transCache,
                   simCache, sent, pw, submits, approved, orchQueued, api, adminCalls,
                   calls, aborted, cacheMode, apart>>

-----------------------------------------------------------------------------
(* The scheduling of posts: schedule_post and process_scheduled_posts *)

\* A Redis key that does not exist.
EmptyKey == [type |-> "none", items |-> <<>>]

\* redis.lpush(key, item): the key becomes (or stays) a list; on a key of
\* another type Redis answers WRONGTYPE.
Lpush(key, item) ==
    IF key.type \in {"none", "list"}
    THEN [type |-> "list", items |-> <<item>> \o key.items]
    ELSE key

\* RedisClient.smembers: the members of a set, each passed through
\* json.loads where it parses; on a key that does not exist Redis answers
\* the empty set, and on a list it answers WRONGTYPE, which the client
\* catches and answers with [].
Smembers(key) ==
    IF key.type = "set"
    THEN {[json |-> "decoded", entry |-> key.items[i]] : i \in 1..Len(key.items)}
    ELSE {}

\* The methods of RedisClient: srem is not one of them.
RedisClientMethods ==
    {"set", "get", "delete", "exists", "lpush", "rpop", "brpop", "llen", "hset",
     "hget", "hgetall", "sadd", "sismember", "smembers"}

\* schedule_post(processed_content_id, publish_at): an lpush of the entry to
\* scheduled_posts_queue.  RedisClient.lpush answers False when Redis fails,
\* which schedule_post does not look at.
SchedulePost(p, publish_at) ==
    /\ Len(scheduled.items) < MaxScheduled
    /\ \E pushed \in BOOLEAN :
         scheduled' = IF pushed
                      THEN Lpush(scheduled, [content_id |-> p, publish_at |-> publish_at])
                      ELSE scheduled
    /\ UNCHANGED <<raw, pcs, posts, archive, procQueue, pubQueue, llmCache,
                   transCache, simCache, sent, pw, bw, submits, approved, orchQueued,
                   api, adminCalls, calls, aborted, cacheMode, llm, now, swept>>

\* The entries that are due at current_time.
Due(entries, current_time) == {e \in entries : current_time >= e.publish_at}

\* The members that the body of the loop of process_scheduled_posts moves:
\* json.loads(post_data) takes a string and raises on a member that smembers
\* has decoded, and redis_client.srem raises when RedisClient has no such
\* method; the except of the body logs either and goes on to the next member.
SweepMoves(scheduled_posts, current_time) ==
    {m.entry : m \in {d \in scheduled_posts :
                          /\ d.json = "text"
                          /\ current_time >= d.entry.publish_at
                          /\ "srem" \in RedisClientMethods}}

\* The items of the key, whatever its type.
Stored(key) == {key.items[i] : i \in 1..Len(key.items)}

\* A sweep that takes no account of publish_at: every entry of the key is
\* taken out and pushed to content_publishing_queue.
ProcessScheduledPostsWhateverTheTime(caller) ==
    LET entries == Stored(scheduled)
        moved == CHOOSE q \in [1..Cardinality(entries) -> entries] :
                     \A e \in entries : \E i \in DOMAIN q : q[i] = e
    IN  /\ caller \in {"periodic_schedule_check", "publish_content"}
        /\ swept' = swept \cup Due(entries, now)
        /\ scheduled' = [scheduled EXCEPT !.items = <<>>]
        /\ pubQueue' = [i \in 1..Len(moved) |-> moved[i].content_id] \o pubQueue
        /\ UNCHANGED <<raw, pcs, posts, archive, procQueue, llmCache,
                       transCache, simCache, sent, pw, bw, submits, approved,
                       orchQueued, api, adminCalls, calls, aborted, cacheMode, llm, now>>

\* process_scheduled_posts, called by periodic_schedule_check every minute
\* and by each Celery publish_content batch: every member that smembers
\* answered and that is due is taken out of the key and pushed to
\* content_publishing_queue.
ProcessScheduledPosts(caller) ==
    LET scheduled_posts == Smembers(scheduled)
        current_time == now
        due == SweepMoves(scheduled_posts, current_time)
        moved == CHOOSE q \in [1..Cardinality(due) -> due] :
                     \A e \in due : \E i \in DOMAIN q : q[i] = e
    IN  /\ caller \in {"periodic_schedule_check", "publish_content"}
        /\ swept' = swept \cup Due(Stored(scheduled), current_time)
        /\ scheduled' = [scheduled EXCEPT
                            !.items = SelectSeq(@, LAMBDA e : e \notin due)]
        /\ pubQueue' = [i \in 1..Len(moved) |-> moved[i].content_id] \o pubQueue
        /\ UNCHANGED <<raw, pcs, posts, archive, procQueue, llmCache,
                       transCache, simCache, sent, pw, bw, submits, approved,
                       orchQueued, api, adminCalls, calls, aborted, cacheMode, llm, now>>

\* Time passes.
Tick ==
    /\ now < MaxTime
    /\ now' = now + 1
    /\ UNCHANGED <<raw, pcs, posts, archive, procQueue, pubQueue, llmCache,
                   transCache, simCache, sent, pw, bw, submits, approved, orchQueued,
                   api, adminCalls, calls, aborted, cacheMode, llm, scheduled, swept>>

-----------------------------------------------------------------------------
(* The review endpoints of main.py; each request has a session of its own *)

ApiHandlers == {"h1", "h2"}
ApiIdle == [pc |-> "idle", content_id |-> 0]

\* What approve_content requires of the row it loaded.
Approvable(content) == content.requires_hitl

\* approve_content up to its checks: 404 for no row, 400 for a row that does
\* not require approval.
ApproveContentLoad(h, p) ==
    /\ api[h].pc = "idle"
    /\ adminCalls < MaxAdminCalls
    /\ adminCalls' = adminCalls + 1
    /\ IF p \in DOMAIN pcs /\ Approvable(pcs[p])
       THEN api' = [api EXCEPT ![h] = [pc |-> "commit", content_id |-> p]]
       ELSE UNCHANGED api
    /\ UNCHANGED <<raw, pcs, posts, archive, procQueue, pubQueue, llmCache, transCache,
                   simCache, sent, pw, bw, submits, approved, orchQueued,
                   calls, aborted, cacheMode, apart>>

\* approve_content: status = ready, requires_hitl = False, commit (500 when
\* the commit raises).
ApproveContentCommit(h) ==
    /\ api[h].pc = "commit"
    /\ \E committed \in BOOLEAN :
         IF committed
         THEN /\ pcs' = [pcs EXCEPT ![api[h].content_id].status = "ready",
                                    ![api[h].content_id].requires_hitl = FALSE]
              /\ approved' = approved \cup {api[h].content_id}
              /\ api' = [api EXCEPT ![h].pc = "push"]
         ELSE /\ api' = [api EXCEPT ![h] = ApiIdle]
              /\ UNCHANGED <<pcs, approved>>
    /\ UNCHANGED <<raw, posts, archive, procQueue, pubQueue, llmCache, transCache,
                   simCache, sent, pw, bw, submits, orchQueued, adminCalls,
                   calls, aborted, cacheMode, apart>>

\* approve_content: the lpush to content_publishing_queue (which may fail).
ApproveContentPush(h) ==
    /\ api[h].pc = "push"
    /\ \E pushed \in BOOLEAN :
         pubQueue' = IF pushed THEN <<api[h].content_id>> \o pubQueue ELSE pubQueue
    /\ api' = [api EXCEPT ![h] = ApiIdle]
    /\ UNCHANGED <<raw, pcs, posts, archive, procQueue, llmCache, transCache,
                   simCache, sent, pw, bw, submits, approved, orchQueued, adminCalls,
                   calls, aborted, cacheMode, apart>>

\* reject_content: status = rejected, requires_hitl = False, commit; 404 for
\* no row, 500 when the commit raises.
RejectContent(p) ==
    /\ adminCalls < MaxAdminCalls
    /\ adminCalls' = adminCalls + 1
    /\ p \in DOMAIN pcs
    /\ \E committed \in BOOLEAN :
         pcs' = IF committed
                THEN [pcs EXCEPT ![p].status = "rejected", ![p].requires_hitl = FALSE]
                ELSE pcs
    /\ UNCHANGED <<raw, posts, archive, procQueue, pubQueue, llmCache, transCache,
                   simCache, sent, pw, bw, submits, approved, orchQueued, api,
                   calls, aborted, cacheMode, apart>>

\* get_pending_content: .limit(20), and the characters of paraphrased_text
\* an entry shows before "..."
PendingLimit == 20
PendingTextLimit == 200

\* get_pending_content: the entry of one row.  It has the id, the headlines,
\* the paraphrased text (cut at 200 characters, with "..." after them), the
\* similarity score, the risk level, the content type and the creation time.
PendingEntry(content) ==
    [id |-> content.id,
     headline_short |-> content.headline_short,
     paraphrased_text |->
         IF content.paraphrased_text.len > PendingTextLimit
         THEN [content.paraphrased_text EXCEPT !.len = PendingTextLimit + 3]
         ELSE content.paraphrased_text,
     similarity_score |-> content.similarity_score,
     risk_level |-> content.risk_level]

\* get_pending_content: the rows with requires_hitl and status pending, the
\* latest 20 of them (the ids of the model grow with the time of creation).
GetPendingContent(table) ==
    LET pending_content == {p \in DOMAIN table : /\ table[p].requires_hitl
                                                  /\ table[p].status = "pending"}
        listed == {p \in pending_content :
                      Cardinality({q \in pending_content : q > p}) < PendingLimit}
    IN  {PendingEntry(table[p]) : p \in listed}

-----------------------------------------------------------------------------
(* The system *)

EmptyTable == [i \in {} |-> Nil]

\* An entry of the content archive left by an earlier run.
ArchivedEntry == [processed_content_id |-> 0, content_embedding |-> VecD]

\* The store, the queues, the caches and the publishing side at startup.
InitTablesWith(modes, archives, histories) ==
    /\ cacheMode \in modes
    /\ raw \in [RawIds -> {[text |-> t, language |-> "en", processed |-> FALSE] :
                            t \in RawTexts}]
    /\ pcs = EmptyTable
    /\ posts \in histories
    /\ archive \in archives
    /\ procQueue = <<>>
    /\ pubQueue = <<>>
    /\ llmCache = EmptyTable
    /\ transCache = EmptyTable
    /\ simCache = EmptyTable
    /\ sent = [p \in PcIds |-> 0]
    /\ bw = [w \in PubWorkers |-> BwIdle(FALSE)]
    /\ approved = {}
    /\ orchQueued = {}
    /\ api = [h \in ApiHandlers |-> ApiIdle]
    /\ adminCalls = 0
    /\ aborted = {}

\* No post has been published in the last 24 hours.
InitTablesOn(modes, archives) == InitTablesWith(modes, archives, {<<>>})

InitTables(modes) == InitTablesOn(modes, {<<>>, <<ArchivedEntry>>})

\* Nothing is scheduled and the clock is at its origin.
InitScheduling ==
    /\ scheduled = EmptyKey
    /\ now = 0
    /\ swept = {}

\* No collaborator call is laid down and nothing is scheduled.
InitApart ==
    /\ llm = LlmIdle
    /\ InitScheduling

\* Startup: no content processor has taken anything yet.
InitStoreOn(modes, archives) ==
    /\ InitTablesOn(modes, archives)
    /\ InitApart
    /\ pw = [w \in ProcWorkers |-> PwIdle]
    /\ submits = 0
    /\ calls = [r \in ContentIds |-> 0]

InitStore(modes) == InitStoreOn(modes, {<<>>, <<ArchivedEntry>>})

\* A cache hit of the analysis, the translation or the paraphrase returns an
\* answer the collaborator can also give afresh, so on the tables, the queues
\* and the channel a run with hits is also a run without them (a hit of the
\* similarity key can pair a text with the score of an earlier text of the
\* same id, which only the cached runs show).  The
\* specifications of the whole pipeline start with the cache down; those of
\* the content processors start with it in the other modes as well, the one
\* of the two consumers on an archive that an earlier run has left an entry in.
Init == InitStore({"down"})
InitProc == InitStoreOn({"down", "up"}, {<<ArchivedEntry>>})
InitCached == InitStore({"up", "flaky"})

ProcessorStep(w) ==
    \/ ProcBrpop(w)
    \/ LoadRawContent(w)
    \/ AnalyzeContent(w)
    \/ TranslateContent(w)
    \/ CheckSimilarity(w)
    \/ ParaphraseContent(w)
    \/ CreateProcessedContent(w)
    \/ DetermineHitl(w)
    \/ CommitProcessed(w)
    \/ QueueForPublishing(w)
    \/ ProcSleep(w)

PublisherStep(w) ==
    \/ PubBrpop(w)
    \/ CheckReady(w)
    \/ PrepareContent(w)
    \/ SendToTelegram(w)
    \/ RecordPublishedPost(w)
    \/ UpdateStatus(w)
    \/ PubSleep(w)

Next ==
    \/ \E r \in RawIds : Submit(r)
    \/ \E r \in ContentIds : ProcessSingleContentTask("celery", r)
    \/ \E w \in ProcWorkers : ProcessorStep(w)
    \/ Cancel("loop")
    \/ \E p \in PcIds : PublishSingleContentTask("pcelery", p)
    \/ NewPublishingService("pcelery")
    \/ \E w \in PubWorkers : PublisherStep(w)
    \/ \E h \in ApiHandlers, p \in PcIds : ApproveContentLoad(h, p)
    \/ \E h \in ApiHandlers : ApproveContentCommit(h) \/ ApproveContentPush(h)
    \/ \E p \in PcIds : RejectContent(p)

Spec == Init /\ [][Next]_vars

\* The sequential system starts on an archive that an earlier run has left an
\* entry in (the empty archive is that of the other specifications).
InitSeq == Init /\ archive # <<>>

\* One Celery worker of each kind and one review request at a time: every
\* delivery of an id is handled after the one before it has returned.
NextSeq ==
    \/ \E r \in RawIds : Submit(r)
    \/ \E r \in ContentIds : ProcessSingleContentTask("celery", r)
    \/ ProcessorStep("celery")
    \/ \E p \in PcIds : PublishSingleContentTask("pcelery", p)
    \/ NewPublishingService("pcelery")
    \/ PublisherStep("pcelery")
    \/ \E p \in PcIds : ApproveContentLoad("h1", p)
    \/ ApproveContentCommit("h1")
    \/ ApproveContentPush("h1")
    \/ \E p \in PcIds : RejectContent(p)

SpecSeq == InitSeq /\ [][NextSeq]_vars

\* The content processors alone, fed by the queue and by tasks.
NextProc ==
    \/ \E r \in RawIds : Submit(r)
    \/ \E r \in ContentIds : ProcessSingleContentTask("celery", r)
    \/ \E w \in ProcWorkers : ProcessorStep(w)
    \/ Cancel("loop")

SpecProc == InitProc /\ [][NextProc]_vars

\* One content processor with the Redis cache up.
NextCached ==
    \/ \E r \in RawIds : Submit(r)
    \/ \E r \in ContentIds : ProcessSingleContentTask("celery", r)
    \/ ProcessorStep("celery")

SpecCached == InitCached /\ [][NextCached]_vars

\* One content processor with the Redis cache up, on an archive that holds the
\* embedding of a text the translation can return.
TwinEntry == [processed_content_id |-> 0, content_embedding |-> VecB]
InitDedup == InitStoreOn({"up", "flaky"}, {<<TwinEntry>>, <<ArchivedEntry, TwinEntry>>})
SpecDedup == InitDedup /\ [][NextCached]_vars

\* One content processor, and the publishing loop beside a Celery publishing
\* worker.
NextPub ==
    \/ \E r \in RawIds : Submit(r)
    \/ ProcessorStep("loop")
    \/ \E p \in PcIds : PublishSingleContentTask("pcelery", p)
    \/ NewPublishingService("pcelery")
    \/ \E w \in PubWorkers : PublisherStep(w)

SpecPub == Init /\ [][NextPub]_vars

\* The gate on its own: a Celery worker that has run steps 1 to 5 of
\* process_single_content on an item and holds the new row at step 6.  The
\* results of the stages range over what the collaborators can return: the
\* tags of the analysis, the score of the similarity check, the translation
\* (enhanced or mechanical, with a sensitive keyword or without) and the
\* rewrite (the fallback, a short body, a body of the minimum length with a
\* sensitive keyword or without).
\* Similarity scores around the two thresholds.
GridScores == {0, 30, 70, 71, 100}
GateTagSets == {{}, {"rumor"}, {"hack"}}
GateTranslations ==
    {[original_language |-> "en", machine_translation |-> m, human_translation |-> t] :
        m \in MachineTexts, t \in MachineTexts \cup EnhancedTexts}
GateBodies ==
    ParaphraseBodies
    \cup {EmptyText, Txt("para", 99, {}, VecA), Txt("para", 100, {"scam"}, VecA)}
GateParaphrases ==
    {EmptyParaphrase} \cup [body : GateBodies \ {EmptyText}, headline_short : {"h"}]

InitGate ==
    /\ InitTables({"down"})
    /\ InitApart
    /\ submits = 1
    /\ calls = [r \in ContentIds |-> IF r \in RawIds THEN 1 ELSE 0]
    /\ \E r \in RawIds, tags \in GateTagSets, translation \in GateTranslations,
          score \in GridScores, paraphrase \in GateParaphrases :
         LET analysis == [risk_tags |-> tags, language |-> "en", priority |-> "medium"]
             similarity == [DefaultSimilarityResult EXCEPT
                               !.similarity_score = score,
                               !.is_duplicate = score > MinSimilarityThreshold,
                               !.embedding = translation.human_translation.vec]
         IN  pw = [w \in ProcWorkers |->
                     IF w = "celery"
                     THEN [pc |-> "hitl", content_id |-> r, analysis |-> analysis,
                           translation |-> translation, similarity |-> similarity,
                           paraphrase |-> paraphrase,
                           processed |-> NewProcessedContent(1, r, analysis, translation,
                                                             similarity, paraphrase),
                           outcome |-> ""]
                     ELSE PwIdle]

NextGate ==
    \/ DetermineHitl("celery")
    \/ CommitProcessed("celery")
    \/ QueueForPublishing("celery")
    \/ ProcSleep("celery")

SpecGate == InitGate /\ [][NextGate]_vars

\* The review surface: one content processor that fills the table, and two
\* approve requests and the reject requests that the web server handles at
\* the same time.  Nothing takes from the publishing queue.
NextReview ==
    \/ \E r \in RawIds : Submit(r)
    \/ ProcessorStep("celery")
    \/ \E h \in ApiHandlers, p \in PcIds : ApproveContentLoad(h, p)
    \/ \E h \in ApiHandlers : ApproveContentCommit(h) \/ ApproveContentPush(h)
    \/ \E p \in PcIds : RejectContent(p)

SpecReview == Init /\ [][NextReview]_vars

\* The two loops of main.py alone, each running for as long as it has a step
\* to take: the processing loop and the publishing loop are tasks of one event
\* loop that neither blocks.
NextLoops ==
    \/ \E r \in RawIds : Submit(r)
    \/ ProcessorStep("loop")
    \/ PublisherStep("ploop")

SpecLoops ==
    /\ Init
    /\ [][NextLoops]_vars
    /\ WF_vars(ProcessorStep("loop"))
    /\ WF_vars(PublisherStep("ploop"))

\* One call of _call_openai, for every way the collaborator can answer the
\* requests of the call.
InitOpenai ==
    /\ InitTables({"down"})
    /\ InitScheduling
    /\ pw = [w \in ProcWorkers |-> PwIdle]
    /\ submits = 0
    /\ calls = [r \in ContentIds |-> 0]
    /\ llm \in {[LlmIdle EXCEPT !.answers = answers] : answers \in LlmAnswerSeqs}

SpecOpenai == InitOpenai /\ [][CallOpenaiStep]_vars

\* The scheduling of posts: calls of schedule_post, the clock, and the sweeps
\* of periodic_schedule_check and of the Celery publish_content batch.
Sweepers == {"periodic_schedule_check", "publish_content"}

NextSched ==
    \/ \E p \in PcIds, publish_at \in 0..MaxTime : SchedulePost(p, publish_at)
    \/ \E caller \in Sweepers : ProcessScheduledPosts(caller)
    \/ Tick

SpecSched == Init /\ [][NextSched]_vars

\* A run of publishes, one after the other, on a table that holds the posts
\* of the last 24 hours: at most affiliate_link_frequency of them matter,
\* with a link or without.
Histories ==
    UNION {[1..n -> {[processed_content_id |-> 0, contains_affiliate |-> a,
                      external_post_id |-> "text"] : a \in BOOLEAN}] :
              n \in 0..AffiliateLinkFrequency}

InitAffiliate ==
    /\ InitTablesWith({"down"}, {<<>>}, Histories)
    /\ InitApart
    /\ pw = [w \in ProcWorkers |-> PwIdle]
    /\ submits = 0
    /\ calls = [r \in ContentIds |-> 0]

SpecAffiliate == InitAffiliate /\ [][PublishNext]_vars

-----------------------------------------------------------------------------
(* Properties *)

\* The consumers that are inside process_single_content for r.
InFlight(r) ==
    {w \in ProcWorkers : pw[w].content_id = r
                          /\ pw[w].pc \notin {"brpop", "sleep", "cancelled"}}

\* The process_single_content calls for r that have returned.
Returned(r) == calls[r] - Cardinality(InFlight(r))

\* C1 (as amended).  Sequential calls of process_single_content with one
\* RawContent id leave at most one ProcessedContent row for it, and exactly one
\* exactly when the RawContent is marked processed (none while every call so
\* far has given up); no ProcessedContent has more than one PublishedPost, and
\* a published one has exactly one.
C1_SequentialIdempotence ==
    \A r \in RawIds :
        /\ Cardinality(RowsOf(r)) <= 1
        /\ raw[r].processed <=> Cardinality(RowsOf(r)) = 1
        /\ \A p \in RowsOf(r) :
              /\ Cardinality(PostsOf(p)) <= 1
              /\ pcs[p].status = "published" => Cardinality(PostsOf(p)) = 1

\* C1 as stated: once two or more sequential calls with the id have returned,
\* exactly one ProcessedContent row references the RawContent and, if it was
\* published, exactly one PublishedPost references that row.
C1_ExactlyOneAfterTwoCalls ==
    \A r \in RawIds :
        Returned(r) >= 2 =>
            /\ Cardinality(RowsOf(r)) = 1
            /\ \A p \in RowsOf(r) :
                  pcs[p].status = "published" => Cardinality(PostsOf(p)) = 1

\* A second call with the id has found the RawContent processed, and the one
\* row of the first call has been published.
C1_Witness ==
    /\ Returned("r1") >= 2
    /\ pw["celery"].outcome = "already_processed"
    /\ \E p \in RowsOf("r1") :
          pcs[p].status = "published" /\ Cardinality(PostsOf(p)) = 1

\* C2.  Under any interleaving of the consumers that take the same RawContent
\* id, at most one ProcessedContent row is ever committed for that RawContent.
C2_AtMostOneRowPerRaw ==
    \A r \in RawIds : Cardinality(RowsOf(r)) <= 1

\* Two consumers have read the same unprocessed RawContent and each has
\* flushed a ProcessedContent for it; neither has committed.
C2_Witness ==
    /\ pw["loop"].pc = "commit" /\ pw["celery"].pc = "commit"
    /\ pw["loop"].content_id = "r1" /\ pw["celery"].content_id = "r1"
    /\ ~raw["r1"].processed

\* C3.  No ProcessedContent has more than one PublishedPost, under any
\* interleaving of publish_content calls for the same item.
C3_AtMostOnePostPerItem ==
    \A p \in PcIds : Cardinality(PostsOf(p)) <= 1

\* Two publish_content calls for one item have both passed the check for an
\* existing PublishedPost.
C3_Witness ==
    /\ bw["ploop"].pc = "record" /\ bw["pcelery"].pc = "record"
    /\ bw["ploop"].processed_content_id = bw["pcelery"].processed_content_id
    /\ PostsOf(bw["ploop"].processed_content_id) = {}

\* C4.  At most one message is ever sent to the channel for a
\* ProcessedContent, over any sequence of sequential publish_content
\* deliveries of its id.
C4_AtMostOneMessage ==
    \A p \in PcIds : sent[p] <= 1

\* A delivery has sent the message and then failed to commit the
\* PublishedPost: the item is still ready and has no PublishedPost.
C4_Witness ==
    \E p \in DOMAIN pcs :
        /\ sent[p] = 1
        /\ bw["pcelery"].pc = "sleep" /\ bw["pcelery"].result = "failed"
        /\ bw["pcelery"].processed_content_id = p
        /\ pcs[p].status = "ready" /\ PostsOf(p) = {}

\* The variables a call of process_single_content or of the gate could write
\* to: the tables, the archive, the queues, the caches and the channel.
stores == <<raw, pcs, posts, archive, procQueue, pubQueue, llmCache, transCache,
            simCache, sent, orchQueued>>

\* C5.  A call of process_single_content for a RawContent that is already
\* processed, or for an id that has no RawContent, takes no action: it returns
\* from the load with no stage run, and no table, queue, cache or channel
\* changes.
C5_NoActionOnConsumedOrMissing ==
    [][\A w \in ProcWorkers :
         (/\ pw[w].pc = "load"
          /\ pw'[w].pc \notin {"load", "cancelled"}
          /\ \/ pw[w].content_id \notin DOMAIN raw
             \/ raw[pw[w].content_id].processed)
         => /\ pw'[w].pc = "sleep"
            /\ pw'[w].outcome \in {"not_found", "already_processed"}
            /\ pw'[w].analysis = Nil /\ pw'[w].translation = Nil
            /\ pw'[w].similarity = Nil /\ pw'[w].paraphrase = Nil
            /\ pw'[w].processed = Nil
            /\ UNCHANGED stores]_vars

\* A duplicate delivery of a processed RawContent has returned from the load.
C5_Witness ==
    /\ pw["celery"].pc = "sleep"
    /\ pw["celery"].outcome = "already_processed"
    /\ raw["r1"].processed
    /\ calls["r1"] = 2

\* C6.  Every call for a RawContent that exists and is not yet consumed, and
\* that no persistence failure aborts, reaches the gate whatever the stage
\* collaborators do: it returns with a ProcessedContent committed and a
\* verdict recorded.
C6_AlwaysReachesGate ==
    \A w \in ProcWorkers :
        (/\ pw[w].pc = "sleep"
         /\ pw[w].outcome \notin {"not_found", "already_processed", "persist_failed"})
        => /\ pw[w].processed # Nil
           /\ pw[w].processed.id \in DOMAIN pcs
           /\ raw[pw[w].content_id].processed

\* Every stage after the analysis has failed and the item has still been
\* committed with a verdict: a translation that passes the text through, no
\* embedding, an empty paraphrase.
C6_Witness ==
    \E p \in DOMAIN pcs :
        /\ pcs[p].translated_text = raw[pcs[p].raw_content_id].text
        /\ pcs[p].similarity_score = 0
        /\ pcs[p].paraphrased_text = EmptyText
        /\ pcs[p].requires_hitl

\* C7.  In every committed state a RawContent is marked processed if and only
\* if a ProcessedContent referencing it is committed, whatever call failed or
\* was cancelled on the way.
C7_ProcessedIffRow ==
    \A r \in RawIds : raw[r].processed <=> RowsOf(r) # {}

\* The loop was cancelled inside a call for r1, and a call of the Celery
\* worker has committed r1.
C7_Witness ==
    /\ pw["loop"].pc = "cancelled" /\ pw["loop"].content_id = "r1"
    /\ raw["r1"].processed
    /\ Cardinality(RowsOf("r1")) = 1
    /\ pw["celery"].pc = "sleep" /\ pw["celery"].outcome = "processed"

\* The verdict of the gate on a committed row: its inputs are columns that no
\* later step writes.
Held(p) == CheckHitlRequirements(pcs[p], MinSimilarityThreshold)

\* C8.  An item the gate held has no PublishedPost and no message sent for it
\* unless approve_content was called for it earlier; the orchestrator never
\* pushes a held item to content_publishing_queue.
C8_HeldNotPublishedUnlessApproved ==
    \A p \in DOMAIN pcs :
        Held(p) =>
            /\ p \notin orchQueued
            /\ p \notin approved => sent[p] = 0 /\ PostsOf(p) = {}

\* publish_content was called for a held item nobody approved, and has
\* returned without a send because the item is not ready.
C8_Witness ==
    \E p \in DOMAIN pcs :
        /\ Held(p) /\ p \notin approved
        /\ bw["pcelery"].pc = "sleep" /\ bw["pcelery"].result = "not_ready"
        /\ bw["pcelery"].processed_content_id = p
        /\ pcs[p].status = "pending"

\* The inputs of the gate.
GateInputs(processed) ==
    <<processed.risk_level, processed.similarity_score,
      processed.translated_text, processed.paraphrased_text>>

\* The rows that carry a verdict of the gate: the committed ones and those a
\* consumer holds after step 6.
Verdicts ==
    {pcs[p] : p \in DOMAIN pcs}
    \cup {pw[w].processed :
            w \in {v \in ProcWorkers : pw[v].processed # Nil /\ pw[v].pc # "hitl"}}

RiskTags == HighRiskTags \cup MediumRiskTags \cup {"partnership"}
GridTexts ==
    {EmptyText} \cup RawTexts \cup MachineTexts \cup EnhancedTexts \cup ParaphraseBodies

\* Over the grid, every set of tags with "hack", "scam" or "exploit" in it has
\* risk level high, and the gate holds every row of that level.
HighRiskHeldOnGrid ==
    \A tags \in SUBSET RiskTags :
        tags \cap {"hack", "scam", "exploit"} # {} =>
            /\ CalculateRiskLevel([risk_tags |-> tags]) = "high"
            /\ \A score \in GridScores, translated \in GridTexts,
                  paraphrased \in GridTexts :
                  CheckHitlRequirements(
                      [risk_level |-> CalculateRiskLevel([risk_tags |-> tags]),
                       similarity_score |-> score,
                       translated_text |-> translated,
                       paraphrased_text |-> paraphrased],
                      MinSimilarityThreshold)

\* C10.  An item whose risk tags include "hack", "scam" or "exploit" has risk
\* level high and is held by the gate for every similarity score and every
\* translated and rewritten text; it is committed with requires_hitl true and
\* status pending, and is not pushed to content_publishing_queue.
C10_HighRiskHeld ==
    /\ HighRiskHeldOnGrid
    /\ \A p \in DOMAIN pcs :
          pcs[p].risk_tags \cap {"hack", "scam", "exploit"} # {} =>
              /\ pcs[p].requires_hitl
              /\ pcs[p].status = "pending"
              /\ p \notin orchQueued
              /\ \A i \in 1..Len(pubQueue) : pubQueue[i] # p

\* An item tagged "hack" whose translation, score and paraphrase would pass
\* every other rule of the gate has been committed, and its call has returned.
C10_Witness ==
    \E p \in DOMAIN pcs :
        /\ "hack" \in pcs[p].risk_tags
        /\ pcs[p].similarity_score <= MinSimilarityThreshold
        /\ pcs[p].translated_text.kw \cap SensitiveKeywords = {}
        /\ pcs[p].paraphrased_text.len >= MinParaphraseLen
        /\ pcs[p].requires_hitl /\ pcs[p].status = "pending"
        /\ pw["celery"].pc = "sleep" /\ pw["celery"].outcome = "processed"

-----------------------------------------------------------------------------
(* The rules of the gate *)

\* The rows the lower rules of the gate decide: risk not high, score not
\* above the threshold.
BelowFirstRules(x) ==
    /\ x.risk_level # "high"
    /\ x.similarity_score <= MinSimilarityThreshold

HasSensitiveKeyword(text) == text.kw \cap SensitiveKeywords # {}

\* C11.  The sensitive-keyword rule reads the rewritten text: a row whose risk
\* is not high, whose score does not exceed the threshold and whose rewritten
\* text has at least 100 characters is held if and only if its rewritten
\* (paraphrased) text contains a sensitive keyword.
C11_KeywordRuleOnRewrittenText ==
    \A x \in Verdicts :
        (BelowFirstRules(x) /\ x.paraphrased_text.len >= MinParaphraseLen) =>
            (x.requires_hitl <=> HasSensitiveKeyword(x.paraphrased_text))

\* A committed row that the keyword rule alone decided, against its rewritten
\* text: held for a keyword of the translation that the rewrite does not
\* have, or let through with a keyword in the rewrite.
C11_Witness ==
    \E p \in DOMAIN pcs :
        /\ BelowFirstRules(pcs[p])
        /\ pcs[p].paraphrased_text.len >= MinParaphraseLen
        /\ HasSensitiveKeyword(pcs[p].paraphrased_text)
        /\ ~HasSensitiveKeyword(pcs[p].translated_text)
        /\ ~pcs[p].requires_hitl
        /\ pcs[p].status = "ready"

\* Rewritten texts under the minimum length: the empty fallback, one
\* character, and one character short of the minimum with and without a
\* sensitive keyword.
ShortTexts ==
    {EmptyText, Txt("para", 1, {}, VecA), Txt("para", MinParaphraseLen - 1, {}, VecA),
     Txt("para", MinParaphraseLen - 1, {"scam"}, VecB)}
GridThresholds == {CandidateThreshold, MinSimilarityThreshold, MinSimilarityThreshold + 1}

\* Over the grid, the gate holds every row whose rewritten text is short,
\* whatever the tags, the score, the translation and the threshold.
ShortRewriteHeldOnGrid ==
    \A tags \in SUBSET RiskTags, score \in GridScores, translated \in GridTexts,
       paraphrased \in ShortTexts, threshold \in GridThresholds :
        CheckHitlRequirements(
            [risk_level |-> CalculateRiskLevel([risk_tags |-> tags]),
             similarity_score |-> score,
             translated_text |-> translated,
             paraphrased_text |-> paraphrased],
            threshold)

\* C12.  A failed or missing rewrite, and any rewritten text that is empty or
\* under 100 characters, is held: the gate answers hold on every such text,
\* and every such row is committed with requires_hitl true and status pending
\* and is never pushed to content_publishing_queue by the orchestrator.
C12_ShortRewriteHeld ==
    /\ ShortRewriteHeldOnGrid
    /\ \A p \in DOMAIN pcs :
          pcs[p].paraphrased_text.len < MinParaphraseLen =>
              /\ pcs[p].requires_hitl
              /\ pcs[p].status = "pending"
              /\ p \notin orchQueued
              /\ \A i \in 1..Len(pubQueue) : pubQueue[i] # p

\* The rewrite has failed on an item nothing else holds (low risk, score not
\* above the threshold, no keyword in the translation); the row is committed
\* with the empty body and the call has returned.
C12_Witness ==
    \E w \in ProcWorkers :
        /\ pw[w].pc = "sleep"
        /\ pw[w].outcome = "processed"
        /\ pw[w].processed.id \in DOMAIN pcs
        /\ LET row == pcs[pw[w].processed.id]
           IN  /\ row.paraphrased_text = EmptyText
               /\ BelowFirstRules(row)
               /\ ~HasSensitiveKeyword(row.translated_text)
               /\ row.requires_hitl

RiskLevels == {"low", "medium", "high"}

\* C13.  On a bounded grid of risk level, similarity score, rewritten text and
\* threshold the verdict of the gate is the reference rule, first match
\* winning: hold if the risk is high; else hold if the score is strictly
\* above the threshold; else hold on a sensitive keyword; else hold if the
\* rewritten text is empty or under 100 characters; otherwise publish-ready.
\* Every verdict a run records is that of the rule too.
C13_GateIsReferenceRule ==
    LET ReferenceRule(risk_level, similarity_score, rewritten, threshold) ==
            IF risk_level = "high" THEN TRUE
            ELSE IF similarity_score > threshold THEN TRUE
            ELSE IF HasSensitiveKeyword(rewritten) THEN TRUE
            ELSE IF rewritten.len = 0 \/ rewritten.len < MinParaphraseLen THEN TRUE
            ELSE FALSE
    IN  /\ \A risk_level \in RiskLevels, score \in GridScores,
              translated \in GridTexts,
              paraphrased \in GridTexts \cup GateBodies \cup ShortTexts,
              threshold \in GridThresholds :
               CheckHitlRequirements(
                   [risk_level |-> risk_level, similarity_score |-> score,
                    translated_text |-> translated, paraphrased_text |-> paraphrased],
                   threshold)
               = ReferenceRule(risk_level, score, paraphrased, threshold)
        /\ \A x \in Verdicts :
              x.requires_hitl = ReferenceRule(x.risk_level, x.similarity_score,
                                              x.paraphrased_text, MinSimilarityThreshold)

\* A committed row at a score equal to the threshold that the second rule did
\* not hold (the comparison is strict) and that the later rules let through:
\* no keyword in either text, and a rewritten text of the minimum length.
C13_Witness ==
    \E p \in DOMAIN pcs :
        /\ pcs[p].risk_level = "medium"
        /\ pcs[p].similarity_score = MinSimilarityThreshold
        /\ ~HasSensitiveKeyword(pcs[p].translated_text)
        /\ ~HasSensitiveKeyword(pcs[p].paraphrased_text)
        /\ pcs[p].paraphrased_text.len = MinParaphraseLen
        /\ ~pcs[p].requires_hitl

-----------------------------------------------------------------------------
(* Failures of the stages *)

\* C14.  A response of the analysis that lacks a required field falls to the
\* default analysis (priority medium, no risk tags, the language of the
\* RawContent) and the item goes on through the other stages and the gate:
\* the call returns with a row of the item committed that carries the
\* defaults.
C14_MissingFieldFallsToDefault ==
    \A w \in ProcWorkers :
        (pw[w].pc = "sleep" /\ pw[w].outcome = "analysis_missing_field") =>
            \E p \in RowsOf(pw[w].content_id) :
                /\ pcs[p].priority = "medium"
                /\ pcs[p].risk_tags = {}
                /\ pcs[p].original_language = raw[pw[w].content_id].language

\* The call has returned on a response that lacks a field: no row of the
\* item, and the RawContent not consumed.
C14_Witness ==
    \E w \in ProcWorkers :
        /\ pw[w].pc = "sleep"
        /\ pw[w].outcome = "analysis_missing_field"
        /\ RowsOf(pw[w].content_id) = {}
        /\ ~raw[pw[w].content_id].processed

\* A row whose text went through the translation service (the source was not
\* Russian), and the failures its translation record shows: the mechanical
\* rendering of a failed machine translation is the source text, and the
\* result of a failed enhancement is the mechanical rendering.
Translated(row) == row.machine_translation # Nil
SourceText(row) == raw[row.raw_content_id].text
MachineTranslationFailed(row) == row.machine_translation = SourceText(row)
EnhancementFailed(row) == row.translated_text \notin EnhancedTexts

NothingQueuedFor(r) ==
    /\ \A i \in 1..Len(pubQueue) :
          pubQueue[i] \in DOMAIN pcs => pcs[pubQueue[i]].raw_content_id # r
    /\ \A p \in orchQueued : p \in DOMAIN pcs => pcs[p].raw_content_id # r

\* C16.  A call that a failure of flush or commit aborts leaves the item as
\* it found it: when the call returns, no ProcessedContent of the item is
\* committed, the processed flag is false, nothing of the item is in
\* content_publishing_queue, and the guard of a later delivery lets the item
\* in; the failing step itself writes no table and no queue.  A later call
\* for the same id that gets to its commit commits the item as any first
\* call does: one row, pending if held and ready if not, and the flag set.
C16_PersistFailureLeavesNothing ==
    /\ [](\A w \in ProcWorkers :
            /\ (pw[w].pc = "sleep" /\ pw[w].outcome = "persist_failed") =>
                   /\ RowsOf(pw[w].content_id) = {}
                   /\ ~raw[pw[w].content_id].processed
                   /\ ~AlreadyProcessed(raw[pw[w].content_id])
                   /\ NothingQueuedFor(pw[w].content_id)
            /\ (pw[w].pc = "queue" /\ pw[w].content_id \in aborted) =>
                   /\ RowsOf(pw[w].content_id) = {pw[w].processed.id}
                   /\ raw[pw[w].content_id].processed
                   /\ pcs[pw[w].processed.id].status =
                          (IF pcs[pw[w].processed.id].requires_hitl
                           THEN "pending" ELSE "ready"))
    /\ [][aborted' \ aborted # {} =>
            <<raw, pcs, posts, archive, pubQueue, orchQueued>>'
                = <<raw, pcs, posts, archive, pubQueue, orchQueued>>]_vars

\* An earlier call for the item was aborted by the store, and a later
\* delivery of the same id has committed it.
C16_Witness ==
    \E w \in ProcWorkers :
        /\ pw[w].pc = "queue"
        /\ pw[w].content_id \in aborted
        /\ RowsOf(pw[w].content_id) = {pw[w].processed.id}
        /\ raw[pw[w].content_id].processed

-----------------------------------------------------------------------------
(* Publishing and review *)

\* No publish_content call is between its entry and its return.
NoPublishMidExecution == \A w \in PubWorkers : bw[w].pc \in {"brpop", "sleep"}

\* C17.  Whenever no publish_content call is mid-execution, a ProcessedContent
\* has a PublishedPost if and only if its status is published, whatever
\* publish, approve and reject operations have run and whichever of the two
\* commits of a publication has failed.
C17_PostIffPublished ==
    NoPublishMidExecution =>
        \A p \in DOMAIN pcs : (PostsOf(p) # {}) <=> (pcs[p].status = "published")

\* The PublishedPost is committed, the commit of the status has failed and
\* the call has returned: the item has a post and is still ready.
C17_Witness ==
    /\ NoPublishMidExecution
    /\ \E w \in PubWorkers :
          /\ bw[w].pc = "sleep"
          /\ bw[w].result = "error"
          /\ bw[w].processed_content_id \in DOMAIN pcs
          /\ PostsOf(bw[w].processed_content_id) # {}
          /\ pcs[bw[w].processed_content_id].status = "ready"

\* The entries of content_publishing_queue for ProcessedContent p.
QueueEntries(p) == {i \in 1..Len(pubQueue) : pubQueue[i] = p}

\* No approve_content call for p is between its check and its return.
NoApproveMidExecution(p) ==
    \A h \in ApiHandlers : api[h].pc = "idle" \/ api[h].content_id # p

\* C18.  approve_content is idempotent under every sequence and interleaving
\* of approve calls on a held item: once the hold is cleared and the calls
\* have returned, exactly one entry for the item has been pushed to
\* content_publishing_queue (nothing takes from the queue here, and the
\* orchestrator pushes no held item); and an approve call on an item that is
\* not held passes no check, so it changes and pushes nothing.
C18_ApproveIdempotent ==
    /\ [](\A p \in DOMAIN pcs :
            (p \in approved /\ NoApproveMidExecution(p)) =>
                Cardinality(QueueEntries(p)) = 1)
    /\ [][\A h \in ApiHandlers, p \in DOMAIN pcs :
            (api[h].pc = "idle" /\ ~pcs[p].requires_hitl /\ api'[h] # api[h]) =>
                api'[h].content_id # p]_vars

\* One approve call on a held item has cleared the hold and returned, and the
\* queue has no entry for the item: the lpush failed.
C18_Witness ==
    \E p \in DOMAIN pcs :
        /\ p \in approved
        /\ adminCalls = 1
        /\ NoApproveMidExecution(p)
        /\ pcs[p].status = "ready"
        /\ ~pcs[p].requires_hitl
        /\ QueueEntries(p) = {}

\* The statuses the lifecycle ends in.
TerminalStatuses == {"published", "rejected", "archived"}

\* C19.  reject_content on an item whose status is terminal (published,
\* rejected or archived) is a no-op: no step changes the status or the hold
\* flag of such an item; a published item never becomes rejected.
C19_RejectTerminalNoOp ==
    [][\A p \in DOMAIN pcs :
          pcs[p].status \in TerminalStatuses =>
              /\ pcs'[p].status = pcs[p].status
              /\ pcs'[p].requires_hitl = pcs[p].requires_hitl]_vars

\* publish_content has returned for an item it published, and a reject call
\* has since turned the item, with its PublishedPost, into a rejected one.
C19_Witness ==
    \E w \in PubWorkers :
        /\ bw[w].pc = "sleep"
        /\ bw[w].result = "published"
        /\ PostsOf(bw[w].processed_content_id) # {}
        /\ pcs[bw[w].processed_content_id].status = "rejected"

\* The archive has an entry of ProcessedContent p with the embedding of its
\* final text, and a similarity check of a candidate with that embedding
\* reports p.
ArchivedAsSimilar(p) ==
    /\ \E i \in 1..Len(archive) :
          /\ archive[i].processed_content_id = p
          /\ archive[i].content_embedding = pcs[p].paraphrased_text.vec
    /\ LET result == SimilarityResult(pcs[p].paraphrased_text.vec, archive,
                                      MinSimilarityThreshold)
       IN  \E i \in 1..Len(result.similar_content_ids) :
              result.similar_content_ids[i] = p

\* C20.  After publish_content has succeeded for an item, a ContentArchive
\* entry with the item's final text and embedding is eventually present, and
\* a later similarity check of a candidate with the same embedding reports
\* the item.
C20_ArchivedAfterPublish ==
    \A p \in PcIds :
        (p \in DOMAIN pcs /\ pcs[p].status = "published") ~>
            (p \in DOMAIN pcs /\ ArchivedAsSimilar(p))

\* publish_content has returned True for an item whose final text has an
\* embedding, and the archive has no entry of the item.
C20_Witness ==
    \E w \in PubWorkers :
        /\ bw[w].pc = "sleep"
        /\ bw[w].result = "published"
        /\ pcs[bw[w].processed_content_id].status = "published"
        /\ pcs[bw[w].processed_content_id].paraphrased_text # EmptyText
        /\ \A i \in 1..Len(archive) :
              archive[i].processed_content_id # bw[w].processed_content_id

-----------------------------------------------------------------------------
(* Deduplication *)

\* An archive of n entries whose last entry has embedding E, the others an
\* embedding orthogonal to VecA.
ArchiveEndingWith(n, E) ==
    [i \in 1..n |-> [processed_content_id |-> 0,
                     content_embedding |-> IF i = n THEN E ELSE VecB]]

HasEmbedding(table, E) == \E i \in 1..Len(table) : table[i].content_embedding = E

\* Thresholds below 1.0, as percentages.
ThresholdsBelowOne == {0, CandidateThreshold, MinSimilarityThreshold, 99}

\* Over archives of one entry, of a few, of as many as the query loads and of
\* one more, a candidate with the embedding of an entry is a duplicate at
\* every threshold below 1.0.
DuplicateOfIdenticalOnGrid ==
    \A n \in {1, 2, SimilarLimit + 1, ArchiveQueryLimit, ArchiveQueryLimit + 1},
       threshold \in ThresholdsBelowOne :
        HasEmbedding(ArchiveEndingWith(n, VecA), VecA) =>
            SimilarityResult(VecA, ArchiveEndingWith(n, VecA), threshold).is_duplicate

\* C21.  Whatever the size of the archive and the state of the similarity
\* cache, check_similarity of a candidate whose embedding is that of an archive
\* entry answers is_duplicate = true at every threshold below 1.0: over the
\* grid of archives, and for every answer a call has got for a text that has
\* an embedding.
C21_IdenticalIsDuplicate ==
    /\ DuplicateOfIdenticalOnGrid
    /\ \A w \in ProcWorkers :
          (/\ pw[w].similarity # Nil
           /\ pw[w].similarity.embedding # Nil
           /\ HasEmbedding(archive, pw[w].translation.human_translation.vec))
          => pw[w].similarity.is_duplicate

\* The similarity key of the item has answered for another text of the same
\* id: the candidate has the embedding of an archive entry, and the answer,
\* computed for an earlier translation of the item, is not a duplicate.
C21_Witness ==
    \E w \in ProcWorkers :
        /\ pw[w].pc = "paraphrase"
        /\ pw[w].similarity.embedding # Nil
        /\ pw[w].similarity.embedding # pw[w].translation.human_translation.vec
        /\ HasEmbedding(archive, pw[w].translation.human_translation.vec)
        /\ ~pw[w].similarity.is_duplicate

-----------------------------------------------------------------------------
(* The caches and the collaborator calls *)

\* The fingerprint of the analysis of the item a consumer is working on.
AnalysisKeyOf(w) == AnalysisPromptData(raw[pw[w].content_id])

\* An analysis in use is the one the cache holds under its fingerprint.
AnalysisIsTheCachedOne(w) ==
    /\ AnalysisKeyOf(w) \in DOMAIN llmCache
    /\ llmCache[AnalysisKeyOf(w)] = pw[w].analysis

\* An analysis step on a fingerprint the cache holds answers with the cached
\* value and leaves the cache alone; a call to the collaborator, which may
\* fail or answer otherwise, has not taken place.
AnalysisStepFromCache(w) ==
    /\ pw'[w].pc = "translate"
    /\ pw'[w].analysis = llmCache[AnalysisKeyOf(w)]
    /\ llmCache' = llmCache

C23_TransientFailureRetried ==
    llm.result # "pending" =>
        /\ llm.attempts <= MaxAnswers
        /\ (/\ Len(llm.answers) >= 2
            /\ llm.answers[1] \in LlmErrors
            /\ llm.answers[2] \in LlmCompletions) => llm.result = llm.answers[2]

\* The call has returned None after one request that hit the rate limit; a
\* second request would have been answered.
C23_Witness ==
    /\ llm.result = "None"
    /\ llm.attempts = 1
    /\ Len(llm.answers) >= 2
    /\ llm.answers[1] = "rate_limit"
    /\ llm.answers[2] \in LlmCompletions

-----------------------------------------------------------------------------
(* The policies of the publisher *)

\* The posts of the run that carry an affiliate block.
AffiliateRunPosts == {i \in 1..Len(RunPosts) : RunPosts[i].contains_affiliate}

\* C24.  Over a run of 5 x N consecutive successful publishes with affiliate
\* frequency N, from any history of published posts, the number of posts
\* with an affiliate block is not zero and is not the number of posts.
C24_AffiliateWithinBound ==
    Len(RunPosts) = RunLength =>
        /\ Cardinality(AffiliateRunPosts) > 0
        /\ Cardinality(AffiliateRunPosts) < RunLength

\* A run that started on N posts of the last 24 hours, one of them with a
\* link, has ended, and every post of it carries a link.
C24_Witness ==
    /\ Len(RunPosts) = RunLength
    /\ Len(posts) = AffiliateLinkFrequency + RunLength
    /\ \E i \in 1..AffiliateLinkFrequency : posts[i].contains_affiliate
    /\ Cardinality(AffiliateRunPosts) = RunLength

\* C27.  The PublishedPost rows that publish_content created in a window of
\* 24 hours (which the whole of a run is) are at most max_posts_per_day.
C27_RateRespected ==
    Len(RunPosts) <= MaxPostsPerDay

\* A run on an empty table has published one item more than a day allows.
C27_Witness ==
    /\ Len(posts) = MaxPostsPerDay + 1
    /\ Len(RunPosts) = Len(posts)

-----------------------------------------------------------------------------
(* The scheduled posts *)

\* The entries of content_publishing_queue for the item p.
Admissions(p) == {i \in 1..Len(pubQueue) : pubQueue[i] = p}

\* C25.  An item deferred with schedule_post is moved to
\* content_publishing_queue by the sweep: once a run of
\* process_scheduled_posts has returned at a time at which the target
\* timestamp of the entry had passed, the queue has the item.
C25_DueMovedBySweep ==
    \A e \in swept : Admissions(e.content_id) # {}

\* An entry is still in scheduled_posts_queue after a sweep that ran when it
\* was due, and the publishing queue is empty.
C25_Witness ==
    \E e \in swept :
        /\ e \in Stored(scheduled)
        /\ now >= e.publish_at
        /\ pubQueue = <<>>

\* C26.  Whatever sweeps have run, each entry that was due at one of them has
\* left the delayed store and has been admitted to content_publishing_queue
\* exactly once: no entry is admitted twice, none is removed without being
\* admitted, and none is left behind.
C26_DueAdmittedExactlyOnce ==
    \A e \in swept :
        /\ e \notin Stored(scheduled)
        /\ Cardinality(Admissions(e.content_id)) =
               Cardinality({d \in swept : d.content_id = e.content_id})

\* Two entries were due at a sweep and neither has been admitted: both are
\* where schedule_post put them.
C26_Witness ==
    /\ Cardinality(swept) = 2
    /\ swept = Stored(scheduled)
    /\ scheduled.type = "list"
    /\ \A e \in swept : Admissions(e.content_id) = {}

-----------------------------------------------------------------------------
(* The fallback to a text message *)

\* C28.  A publish_content call whose text-only send succeeded (with no
\* image, or after the download or the send of the photo failed) succeeds:
\* it returns True, the item has a PublishedPost and its status is published.
C28_TextSendMeansPublished ==
    \A w \in PubWorkers :
        (bw[w].pc = "sleep" /\ bw[w].message = "text") =>
            /\ bw[w].result = "published"
            /\ PostsOf(bw[w].processed_content_id) # {}
            /\ pcs[bw[w].processed_content_id].status = "published"

\* An image was resolved, the send with it failed, the text-only send went
\* through and its PublishedPost is committed: one message, a text.
C28_Witness ==
    \E w \in PubWorkers :
        /\ bw[w].pc = "status"
        /\ bw[w].image_urls
        /\ bw[w].message = "text"
        /\ sent[bw[w].processed_content_id] = 1

-----------------------------------------------------------------------------
(* A similarity check without an embedding *)

\* The call of w has a similarity result that holds no embedding: the
\* embedding could not be computed (every other result, cached or not, holds
\* the embedding it was computed from).
EmbeddingFailed(w) ==
    /\ pw[w].similarity # Nil
    /\ pw[w].similarity.embedding = Nil

\* C29.  When the embedding cannot be computed, check_similarity answers
\* with the conservative verdict (score 0, not a duplicate, no similar item);
\* the call goes on to the rewrite and to the gate, and the row it builds is
\* not held by the similarity rule of the gate.
C29_EmbeddingFailureIsConservative ==
    \A w \in ProcWorkers :
        EmbeddingFailed(w) =>
            /\ pw[w].similarity.similarity_score = 0
            /\ ~pw[w].similarity.is_duplicate
            /\ pw[w].similarity.similar_content_ids = <<>>
            /\ pw[w].pc \in {"paraphrase", "create", "hitl", "commit", "queue"}
            /\ pw[w].processed # Nil =>
                   /\ pw[w].processed.similarity_score = 0
                   /\ ~(pw[w].processed.similarity_score > MinSimilarityThreshold)

\* A call whose embedding failed has passed the gate, which did not hold
\* the row.
C29_Witness ==
    \E w \in ProcWorkers :
        /\ EmbeddingFailed(w)
        /\ pw[w].pc = "commit"
        /\ ~pw[w].processed.requires_hitl
        /\ pw[w].processed.status = "ready"

-----------------------------------------------------------------------------
(* The shutdown *)

\* The loop is inside process_single_content.
LoopInCall == pw["loop"].pc \notin {"brpop", "sleep", "cancelled"}

\* C30.  After the shutdown has cancelled the queue loop the loop dequeues
\* nothing, and the item it had dequeued when it was cancelled is persisted
\* by the time it exits: its RawContent is marked processed and its
\* ProcessedContent is committed.
C30_ShutdownPersistsDequeued ==
    /\ [][pw["loop"].pc = "cancelled" =>
            pw'["loop"] = pw["loop"] /\ Len(procQueue') >= Len(procQueue)]_vars
    /\ [][(/\ LoopInCall
           /\ pw'["loop"].pc = "cancelled"
           /\ pw["loop"].content_id \in RawIds) =>
              /\ raw'[pw["loop"].content_id].processed
              /\ \E p \in DOMAIN pcs' : pcs'[p].raw_content_id = pw["loop"].content_id]_vars

\* The loop was cancelled inside a call for r1, no other consumer has the
\* item, and the item is neither queued nor processed: it is lost.
C30_Witness ==
    /\ pw["loop"].pc = "cancelled" /\ pw["loop"].content_id = "r1"
    /\ pw["celery"].pc = "brpop"
    /\ procQueue = <<>>
    /\ calls["r1"] = 1
    /\ ~raw["r1"].processed
    /\ RowsOf("r1") = {}

-----------------------------------------------------------------------------
(* The review surface *)

\* C31.  Every held item carries the reasons of its hold, and the listing of
\* the pending items shows them: what an entry of the listing records of the
\* four rules (a high risk level, a similarity score above the threshold, a
\* paraphrase shown whole and under the minimum length; no column of the row
\* and no field of the entry is a reason flag, and none shows the translated
\* text) is not empty and is the set of the rules that matched.
C31_HeldItemsCarryReasons ==
    \A entry \in GetPendingContent(pcs) :
        LET reasons ==
                {rule \in {"risk", "similarity", "sensitive-keyword", "low-quality"} :
                    \/ rule = "risk" /\ entry.risk_level = "high"
                    \/ rule = "similarity"
                          /\ entry.similarity_score > MinSimilarityThreshold
                    \/ rule = "low-quality"
                          /\ entry.paraphrased_text.len < MinParaphraseLen}
        IN  /\ reasons # {}
            /\ reasons = MatchedRules(pcs[entry.id], MinSimilarityThreshold)

\* A row that only the sensitive keyword of its translated text holds is
\* committed and listed.
C31_Witness ==
    \E entry \in GetPendingContent(pcs) :
        MatchedRules(pcs[entry.id], MinSimilarityThreshold) = {"sensitive-keyword"}

-----------------------------------------------------------------------------
(* A send that fails *)

\* publish_content has returned False from a send that delivered nothing.
SendFailed(w) ==
    /\ bw[w].pc = "sleep"
    /\ bw[w].result = "failed"
    /\ bw[w].message = "none"

\* C32.  After publish_content has failed to send, the item is in the
\* retryable state and is retried without a manual step: its status is still
\* ready, it has no PublishedPost, and its id is in content_publishing_queue
\* again for the loop to take.
C32_FailedSendIsRetried ==
    \A w \in PubWorkers :
        SendFailed(w) =>
            /\ pcs[bw[w].processed_content_id].status = "ready"
            /\ PostsOf(bw[w].processed_content_id) = {}
            /\ Admissions(bw[w].processed_content_id) # {}

\* The send of a ready item has failed, the loop is about to sleep, and the
\* publishing queue is empty: nothing will hand the item to publish_content.
C32_Witness ==
    /\ SendFailed("ploop")
    /\ pcs[bw["ploop"].processed_content_id].status = "ready"
    /\ sent[bw["ploop"].processed_content_id] = 0
    /\ pubQueue = <<>>
    /\ pw["loop"].pc = "brpop" /\ procQueue = <<>>

-----------------------------------------------------------------------------
(* The affiliate decision *)

\* The places in the table of the posts that were the window of the post at
\* place i when it was prepared: the at most N posts before it.
WindowOf(i) == {j \in 1..(i - 1) : j >= i - AffiliateLinkFrequency}

C34_AtMostOneLinkInWindow ==
    /\ \A i \in 1..Len(posts) :
           (posts[i].processed_content_id # 0 /\ posts[i].contains_affiliate) =>
               \A j \in WindowOf(i) : ~posts[j].contains_affiliate
    /\ \A i \in 1..Len(RunPosts) :
           Cardinality({j \in i..(i + AffiliateLinkFrequency) :
                           j <= Len(RunPosts) /\ RunPosts[j].contains_affiliate}) <= 1

\* Two posts of a run, one right after the other, both carry a block.
C34_Witness ==
    \E i \in 1..(Len(RunPosts) - 1) :
        RunPosts[i].contains_affiliate /\ RunPosts[i + 1].contains_affiliate

-----------------------------------------------------------------------------
(* The score of the similarity check *)

\* The largest cosine of an embedding with the entries of a table, where it
\* exceeds the admission threshold, and 0 where none does.
AdmittedMaximum(embedding, table) ==
    LET cosines == {CosineSimilarity(embedding, table[i].content_embedding) :
                       i \in 1..Len(table)} \cup {0}
        best == CHOOSE c \in cosines : \A d \in cosines : d <= c
    IN  IF best > CandidateThreshold THEN best ELSE 0

\* Archives of up to three entries over the four embeddings, an archive of
\* more near entries than a result lists, and archives of as many entries as
\* the query loads and of one more, whose last entry alone is near.
GridArchives ==
    UNION {[1..n -> {[processed_content_id |-> 0, content_embedding |-> e] :
                        e \in {VecA, VecB, VecC, VecD}}] : n \in 0..3}
    \cup {[i \in 1..(SimilarLimit + 2) |->
              [processed_content_id |-> 0,
               content_embedding |-> IF i % 2 = 0 THEN VecC ELSE VecD]],
          ArchiveEndingWith(ArchiveQueryLimit, VecD),
          ArchiveEndingWith(ArchiveQueryLimit + 1, VecD)}

\* Over the grid, the result of a check that computed an embedding: the score
\* is the admitted maximum over the whole archive, the items listed are at
\* most 10, each above the admission threshold, in decreasing order, and the
\* verdict is "score above the threshold".
ScoreIsMaximumOnGrid ==
    \A table \in GridArchives, threshold \in ThresholdsBelowOne :
        LET similar_content == FindSimilarContent(VecA, table, SimilarLimit)
            result == SimilarityResult(VecA, table, threshold)
        IN  /\ result.similarity_score = AdmittedMaximum(VecA, table)
            /\ Len(similar_content) <= SimilarLimit
            /\ \A k \in 1..Len(similar_content) :
                   similar_content[k].similarity > CandidateThreshold
            /\ \A k \in 1..(Len(similar_content) - 1) :
                   similar_content[k].similarity >= similar_content[k + 1].similarity
            /\ result.is_duplicate <=> (result.similarity_score > threshold)

\* C35.  The score check_similarity reports for a candidate is the largest
\* cosine between the candidate and all the archive entries that have an
\* embedding where that exceeds 0.3, and 0 otherwise; the items it lists are
\* at most 10, each above 0.3, by decreasing similarity; and is_duplicate is
\* "score above the configured threshold": over the grid of archives, and for
\* every answer a call has got for a text that has an embedding.
C35_ScoreIsMaximum ==
    /\ ScoreIsMaximumOnGrid
    /\ \A w \in ProcWorkers :
          (pw[w].similarity # Nil /\ pw[w].similarity.embedding # Nil) =>
              /\ pw[w].similarity.similarity_score =
                     AdmittedMaximum(pw[w].translation.human_translation.vec, archive)
              /\ Len(pw[w].similarity.similar_content_ids) <= SimilarLimit
              /\ pw[w].similarity.is_duplicate <=>
                     (pw[w].similarity.similarity_score > MinSimilarityThreshold)

\* A call has an answer whose score is not the maximum for its candidate:
\* the similarity key of the item answered with the result of an earlier
\* text.
C35_Witness ==
    \E w \in ProcWorkers :
        /\ pw[w].similarity # Nil
        /\ pw[w].similarity.embedding # Nil
        /\ pw[w].similarity.similarity_score #
               AdmittedMaximum(pw[w].translation.human_translation.vec, archive)

-----------------------------------------------------------------------------
(* The risk level *)

\* C36.  The risk level of a set of tags is high when it has any of hack,
\* scam, exploit (whatever else it has), medium when it has rumor or
\* regulation and none of those, and low otherwise, the empty set included:
\* over every set of tags of the grid, and of every row a call has built or
\* committed.
C36_RiskLevelOfTags ==
    LET LevelOfTags(tags) ==
            IF \E tag \in tags : tag \in {"hack", "scam", "exploit"} THEN "high"
            ELSE IF \E tag \in tags : tag \in {"rumor", "regulation"} THEN "medium"
            ELSE "low"
    IN  /\ \A tags \in SUBSET RiskTags :
               CalculateRiskLevel([risk_tags |-> tags]) = LevelOfTags(tags)
        /\ \A p \in DOMAIN pcs : pcs[p].risk_level = LevelOfTags(pcs[p].risk_tags)
        /\ \A w \in ProcWorkers :
              pw[w].processed # Nil =>
                  pw[w].processed.risk_level = LevelOfTags(pw[w].processed.risk_tags)

\* A row tagged "rumor" alone is committed at level medium.
C36_Witness ==
    \E p \in DOMAIN pcs :
        /\ pcs[p].risk_tags = {"rumor"}
        /\ pcs[p].risk_level = "medium"

-----------------------------------------------------------------------------
(* The delivery of the queued ids *)

\* The entries of content_processing_queue for the RawContent r.
Deliveries(r) == {i \in 1..Len(procQueue) : procQueue[i] = r}

\* C37.  An id pushed to content_processing_queue is consumed in the end: an
\* id whose attempt failed after it was dequeued is delivered again, so when
\* the attempt has returned without consuming the RawContent, the id is in
\* the queue for the loop to take.
C37_FailedAttemptRedelivered ==
    \A w \in ProcWorkers :
        (/\ pw[w].pc = "sleep"
         /\ pw[w].content_id \in RawIds
         /\ ~raw[pw[w].content_id].processed) =>
            Deliveries(pw[w].content_id) # {}

\* The one delivery of r1 has failed in the analysis; the queue is empty and
\* the RawContent is not consumed.
C37_Witness ==
    /\ pw["loop"].pc = "sleep"
    /\ pw["loop"].content_id = "r1"
    /\ pw["loop"].outcome \in AnalysisFailures
    /\ submits = 1
    /\ procQueue = <<>>
    /\ ~raw["r1"].processed
    /\ RowsOf("r1") = {}

-----------------------------------------------------------------------------
(* The hand-off to the publisher *)

\* A push of p to content_publishing_queue is still to come: the call of
\* process_single_content that committed p, or an approve_content request
\* for p, has not reached its lpush.
PushPending(p) ==
    \/ \E w \in ProcWorkers : pw[w].pc = "queue" /\ pw[w].processed.id = p
    \/ \E h \in ApiHandlers : api[h].pc = "push" /\ api[h].content_id = p

\* C38.  A ProcessedContent committed with status ready and requires_hitl
\* false gets to content_publishing_queue, also when the push fails after the
\* commit: once the call or the request that made it ready has returned, an
\* entry of the item is in the queue (which nothing here takes from).
C38_ReadyIsQueued ==
    \A p \in DOMAIN pcs :
        (/\ pcs[p].status = "ready"
         /\ ~pcs[p].requires_hitl
         /\ ~PushPending(p)) => Admissions(p) # {}

\* The gate let the item through, its row is committed as ready, the lpush of
\* _queue_for_publishing failed and the call has returned as processed: the
\* queue is empty and no approval has taken place.
C38_Witness ==
    \E p \in DOMAIN pcs :
        /\ pcs[p].status = "ready" /\ ~pcs[p].requires_hitl
        /\ pw["celery"].pc = "sleep" /\ pw["celery"].outcome = "processed"
        /\ pw["celery"].processed.id = p
        /\ p \notin orchQueued /\ p \notin approved
        /\ pubQueue = <<>>

-----------------------------------------------------------------------------
(* A rejection during a publish *)

\* C39.  Once reject_content has committed for an item, no message of the
\* item is sent and its status does not become published, whatever
\* publish_content call for the item is queued or in flight: no step taken
\* while the item is rejected sends for it or makes it published.
C39_RejectedIsNeverSent ==
    [][\A p \in DOMAIN pcs :
          pcs[p].status = "rejected" =>
              /\ sent'[p] = sent[p]
              /\ pcs'[p].status # "published"]_vars

\* reject_content has committed for an item while a publish_content call for
\* it is past its status check and before its send.
C39_Witness ==
    \E w \in PubWorkers :
        /\ bw[w].pc \in {"prepare", "send"}
        /\ bw[w].processed_content_id \in DOMAIN pcs
        /\ pcs[bw[w].processed_content_id].status = "rejected"
        /\ sent[bw[w].processed_content_id] = 0

-----------------------------------------------------------------------------
(* The entries that are not due *)

\* The number of copies of the entry e in the key.
Copies(key, e) == Cardinality({i \in 1..Len(key.items) : key.items[i] = e})

\* C40.  process_scheduled_posts pushes no scheduled entry to
\* content_publishing_queue before its publish_at: in every step, each entry
\* whose target time is still in the future stays in scheduled_posts_queue,
\* and every id that is added to the publishing queue is that of a stored
\* entry whose target time has come.
C40_FutureEntriesStay ==
    [][/\ \A e \in Stored(scheduled) :
              now < e.publish_at => Copies(scheduled', e) >= Copies(scheduled, e)
       /\ \A i \in 1..(Len(pubQueue') - Len(pubQueue)) :
              \E e \in Stored(scheduled) :
                  e.content_id = pubQueue'[i] /\ now >= e.publish_at]_vars

\* A sweep has run over the two entries of the key, one that was due and one
\* whose target time is still to come: the later one is where schedule_post
\* put it and the publishing queue has no entry.
C40_Witness ==
    \E i, j \in 1..Len(scheduled.items) :
        /\ i < j
        /\ scheduled.items[i] \in swept
        /\ Copies(scheduled, scheduled.items[i]) = 1
        /\ now < scheduled.items[j].publish_at
        /\ pubQueue = <<>>

=============================================================================
